---- MODULE Spec2Model ----
(***************************************************************************)
(* Model of rtabmap's mapping-thread coordinator, RtabmapThread            *)
(* (corelib/src/RtabmapThread.cpp): the bounded data buffer, the state     *)
(* (command) stack, the rate limiter of addData, the consumer's mainLoop   *)
(* and mainLoopKill.  Producer threads run handleEvent, one consumer       *)
(* thread runs mainLoop, a third thread calls kill().  Each handler is     *)
(* split at its synchronisation points (mutex sections, semaphore          *)
(* release/acquire) and at its unlocked accesses to shared fields.         *)
(***************************************************************************)
EXTENDS Integers, Sequences, FiniteSets, TLC

\* ------------------------------------------------------------------ bounds
\* handleEvent / setter calls made by the producers in one behaviour
MaxEvents == 3
\* largest value given to RtabmapImageBufferSize
MaxBuf == 2
\* the frame-rate timer is followed up to this elapsed time (ms)
MaxElapsed == 100
\* one clock step (ms)
TickMs == 100
\* the periods the steady source runs for
MaxTicks == 12

Producers == {"p1", "p2"}
FirstProducer == "p1"
NoThread == "none"

\* ------------------------------------------------------------- value sets
Identity == "identity"
NullPose == "null"
OtherPose == "other"
\* poses an odometry event can carry (Transform): identity, null, any other
Poses == {Identity, OtherPose, NullPose}
\* variances carried by odometry events
Variances == {0, 2}
\* detection rates (Hz); 0 = unlimited
RateValues == {0, 10}
BufferSizes == {0, 1, MaxBuf}
\* SensorData's default id, of a frame the sensor does not number
NoId == 0
\* user-data blobs (cv::Mat); 0 is the empty matrix
EmptyMat == 0
Blobs == 0 .. MaxEvents

\* RtabmapThread::State
kStateDetecting == "Detecting"
kStateInit == "Init"
kStateChangingParameters == "ChangingParameters"
kStateReseting == "Reseting"
kStateClose == "Close"
kStateDumpingMemory == "DumpingMemory"
kStateDumpingPrediction == "DumpingPrediction"
kStateExportingDOTGraph == "ExportingDOTGraph"
kStateExportingPoses == "ExportingPoses"
kStateCleanDataBuffer == "CleanDataBuffer"
kStatePublishingMap == "PublishingMap"
kStateTriggeringMap == "TriggeringMap"
kStateAddingUserData == "AddingUserData"
kStateSettingGoal == "SettingGoal"
kStateCancellingGoal == "CancellingGoal"
kStateLabelling == "Labelling"

\* keys of a ParametersMap read by the coordinator
kRtabmapImageBufferSize == "ImageBufferSize"
kRtabmapDetectionRate == "DetectionRate"
kRtabmapCreateIntermediateNodes == "CreateIntermediateNodes"
kDatabasePath == "RtabmapThread/DatabasePath"

\* the empty ParametersMap (default argument of pushNewState)
NoParameters == {}

VARIABLES
    dataBuffer,               \* _dataBuffer: list of OdometryEvent, front first
    state,                    \* _state: stack of State, top last
    stateParam,               \* _stateParam: stack of ParametersMap, top last
    dataAdded,                \* _dataAdded: semaphore count
    dataMutex,                \* _dataMutex: holder across addData's section
    dataBufferMaxSize,        \* _dataBufferMaxSize
    rate,                     \* _rate
    createIntermediateNodes,  \* _createIntermediateNodes
    paused,                   \* _paused
    lastPose,                 \* lastPose_
    rotVariance,              \* _rotVariance
    transVariance,            \* _transVariance
    userData,                 \* _userData
    elapsed,                  \* _frameRateTimer->getElapsedTime(), ms
    running,                  \* UThread state_ == kSRunning
    ppc,                      \* producer's position in its handler
    pev,                      \* producer's event (odomEvent of addData)
    pignore,                  \* addData's local ignoreFrame
    pnotify,                  \* addData's local notify
    cpc,                      \* consumer's position in mainLoop
    cstate,                   \* mainLoop's local state
    cparam,                   \* mainLoop's local parameters
    cdata,                    \* process()'s local data
    kpc,                      \* position of the thread calling kill()
    memory,                   \* _rtabmap->getMemory() != 0
    lastProcessed,            \* push_back number of the frame last passed to
                              \* _rtabmap->process (0: none)
    lastUserDataSet,          \* blob last passed to _rtabmap->setUserData (-1: none)
    rtabmapPath,              \* what _rtabmap->getPath() returns: node ids, goal last
    nEvents,                  \* handler calls made so far
    nAppended,                \* push_back calls made so far on _dataBuffer
    lastDequeued,             \* push_back number of the entry getData returned last
    sizeLowered,              \* _dataBufferMaxSize went down since addData last left its section
    prevPose,                 \* pose of the last frame addData took in; identity after a clear
    cframe,                   \* the buffer held a frame when mainLoop popped its state
    cbelow,                   \* states left on the stack when mainLoop popped its state
    killMark,                 \* nAppended when mainLoopKill cleared the buffer (-1: not yet)
    nTicks,                   \* periods of the steady frame source gone by
    called,                   \* engine calls whose result this mainLoop call tested
    posted,                   \* events this mainLoop call posted
    failed,                   \* a goal or a label command has failed
    closeMark,                \* nAppended when mainLoop last popped kStateClose
    requested                 \* the last call of a setter or command with flags: its
                              \* name, its arguments and the number of the call

coordVars == <<dataBuffer, state, stateParam, dataAdded, dataMutex,
               dataBufferMaxSize, rate, createIntermediateNodes, paused,
               lastPose, rotVariance, transVariance, userData, elapsed, running>>
producerVars == <<ppc, pev, pignore, pnotify>>
consumerVars == <<cpc, cstate, cparam, cdata, cframe, cbelow>>
engineVars == <<memory, lastProcessed, lastUserDataSet, rtabmapPath>>
\* counters of what has happened so far
historyVars == <<nEvents, nAppended, lastDequeued>>
\* records of past facts that the properties read; no guard reads them
ghostVars == <<sizeLowered, prevPose, killMark>>
\* the steady source's clock and what the current mainLoop call did outwards
traceVars == <<nTicks, called, posted, failed, closeMark, requested>>
vars == <<coordVars, producerVars, consumerVars, kpc, engineVars, historyVars, ghostVars,
          traceVars>>

\* --------------------------------------------------------------- helpers
\* ParametersMap: a set of <<key, value>> pairs with distinct keys
HasKey(parameters, key) == \E kv \in parameters : kv[1] = key
ValueAt(parameters, key) == (CHOOSE kv \in parameters : kv[1] = key)[2]
\* Parameters::parse(parameters, key, field): the field changes only when
\* the key is in the map
ParseMut(parameters, key, field) ==
    IF HasKey(parameters, key) THEN ValueAt(parameters, key) ELSE 0
Parse(parameters, key, field) ==
    IF HasKey(parameters, key) THEN ValueAt(parameters, key) ELSE field

\* addData: _rate > 0 and getElapsedTime() < 1.0f/_rate, on a clock in ms
IgnoreFrameUnitMut(r, el) == r > 0 /\ el < r
IgnoreFrameAlwaysMut(r, el) == el * r < 1000
IgnoreFrameLooseMut(r, el) == r > 0 /\ el * r <= 1000
IgnoreFrame(r, el) == r > 0 /\ el * r < 1000

\* addData: _dataBufferMaxSize > 0 && !lastPose_.isIdentity() && pose.isIdentity()
IsOdometryReset(maxSize, last, pose) ==
    maxSize > 0 /\ last # Identity /\ pose = Identity

\* addData: if(maxVar > _variance) _variance = maxVar
MaxVariance(acc, v) == IF v > acc THEN v ELSE acc

\* addData: if(_variance <= 0) _variance = 1.0
FloorVariance(v) == IF v <= 0 THEN 1 ELSE v

\* the OdometryEvent pushed to _dataBuffer; an ignored frame keeps id, pose
\* and variances and loses its sensor payload.  seq numbers the push_back.
BufferedEventMut(ev, ignoreFrame, rotVar, transVar, n) ==
    [id |-> ev.id, pose |-> ev.pose, intermediate |-> FALSE,
     rotVariance |-> rotVar, transVariance |-> transVar, seq |-> n]
BufferedEvent(ev, ignoreFrame, rotVar, transVar, n) ==
    [id |-> ev.id, pose |-> ev.pose, intermediate |-> ignoreFrame,
     rotVariance |-> rotVar, transVariance |-> transVar, seq |-> n]

\* _dataBuffer.pop_front()
PopFrontMut(q) == SubSeq(q, 1, Len(q) - 1)
PopFront(q) == Tail(q)

\* _dataBuffer.front()
FrontMut(q) == q[Len(q)]
Front(q) == Head(q)

\* a new _dataBufferMaxSize that bounds the buffer more tightly than the old
Lowered(old, new) == new > 0 /\ (old = 0 \/ new < old)

\* the condition of addData's eviction loop
BufferFullMut(maxSize, q) == maxSize > 0 /\ Len(q) > maxSize + 1
BufferFull(maxSize, q) == maxSize > 0 /\ Len(q) > maxSize

\* _state.top() / _stateParam.top()
TopMut(stack) == stack[1]
Top(stack) == stack[Len(stack)]

\* _state.pop() / _stateParam.pop()
PopMut(stack) == stack
Pop(stack) == SubSeq(stack, 1, Len(stack) - 1)

\* _state.push(newState) / _stateParam.push(parameters)
Push(stack, x) == Append(stack, x)

\* addData and the UserDataEvent handler: if(!_paused)
AcceptsDataMut(isPaused) == TRUE
AcceptsData(isPaused) == ~isPaused

\* UserDataEvent handler: updated = !_userData.empty(), inside
\* if(!data.empty())
UpdatedMut(data, pending) == FALSE
Updated(data, pending) == data # EmptyMat /\ pending # EmptyMat

\* process(): if(_rtabmap->getMemory())
HasMemoryMut(mem) == TRUE
HasMemory(mem) == mem

\* _rtabmap->process(data...) and the value it returned
ProcessCall(n, result) == <<"process", n, result>>

\* the RtabmapEvent process() posts: the engine's statistics with
\* kMemoryImages_buffered added, the value of _dataBuffer.size() (line 469)
StatisticsEventMut(buffered) == <<"RtabmapEvent", buffered + 1>>
StatisticsEvent(buffered) == <<"RtabmapEvent", buffered>>

\* _dataMutex.unlock(): the holder of the mutex afterwards
UnlockMut(holder) == holder
Unlock(holder) == NoThread

\* pushNewState: _dataAdded.release(), on the semaphore's count
ReleaseMut(count) == count + 2
Release(count) == count + 1

\* addData: if(notify) _dataAdded.release(), on the semaphore's count
NotifyMut(notify, count) == count + 1
NotifyNeverMut(notify, count) == count
Notify(notify, count) == IF notify THEN count + 1 ELSE count

\* the characters of a decimal number
DigitChars == <<"0", "1", "2", "3", "4", "5", "6", "7", "8", "9">>

\* UVariant::toStr of an int: its decimal digits after a minus sign if negative
ToStr(n) ==
    LET RECURSIVE Digits(_)
        Digits(m) == IF m < 10
                     THEN <<DigitChars[m + 1]>>
                     ELSE Append(Digits(m \div 10), DigitChars[(m % 10) + 1])
    IN  IF n < 0 THEN <<"-">> \o Digits(-n) ELSE Digits(n)

\* atoi(s.c_str()): an optional sign, then the digits up to the first
\* character that is not one; 0 if there is none
Atoi(s) ==
    LET signed == s # <<>> /\ s[1] \in {"-", "+"}
        DigitOf(c) == CHOOSE d \in 0 .. 9 : DigitChars[d + 1] = c
        RECURSIVE Value(_, _)
        Value(t, acc) ==
            IF t = <<>> \/ (\A d \in 1 .. 10 : DigitChars[d] # t[1])
            THEN acc
            ELSE Value(Tail(t), acc * 10 + DigitOf(t[1]))
        magnitude == Value(IF signed THEN Tail(s) ELSE s, 0)
    IN  IF signed /\ s[1] = "-" THEN -magnitude ELSE magnitude

\* RtabmapGlobalPathEvent(id, _rtabmap->getPath())
PathEvent(id, nodes) == <<"RtabmapGlobalPathEvent", id, nodes>>

\* Rtabmap::computePath(id, true) and Rtabmap::clearPath on the engine's path:
\* a path found ends at the goal, a failed computation leaves no path
ComputePath(id, reachable) == IF reachable THEN <<id>> ELSE <<>>
ClearPath == <<>>

\* kStateSettingGoal: the events posted for goal id, reached is what
\* id > 0 && computePath(id, true) gave
PathEventsMut(id, reached, nodes) == IF reached THEN <<PathEvent(id, nodes)>> ELSE <<>>
PathEvents(id, reached, nodes) == <<PathEvent(id, nodes)>>

\* RtabmapLabelErrorEvent(id, label)
LabelErrorEvent(id, label) == <<"RtabmapLabelErrorEvent", id, label>>

\* kStateLabelling: the events posted after labelLocation(id, label)
\* returned labelled
LabelEventsMut(id, label, labelled) == <<>>
LabelEvents(id, label, labelled) ==
    IF labelled THEN <<>> ELSE <<LabelErrorEvent(id, label)>>

\* a case of mainLoop's switch ends with break: mainLoop returns to the
\* thread's loop whatever the engine answered
AfterCaseMut(succeeded) == IF succeeded THEN "loop" ELSE "done"
AfterCase(succeeded) == "loop"

\* a default-constructed OdometryEvent
NoEvent == [id |-> NoId, pose |-> NullPose, rotVariance |-> 0, transVariance |-> 0]
NoData == BufferedEvent(NoEvent, FALSE, 0, 0, 0)

Ids(q) == [i \in 1 .. Len(q) |-> q[i].id]

\* ------------------------------------------------------------------ Init
\* RtabmapThread::RtabmapThread, but for the three settings, which start at
\* the defaults of Parameters, and the Rtabmap handed in, which may or may
\* not be initialised already: each specification fixes those.
InitFields ==
    /\ dataBuffer = <<>>
    /\ state = <<>>
    /\ stateParam = <<>>
    /\ dataAdded = 0
    /\ dataMutex = NoThread
    /\ paused = FALSE
    /\ lastPose = Identity
    /\ rotVariance = 0
    /\ transVariance = 0
    /\ userData = EmptyMat
    /\ elapsed = 0
    /\ running = TRUE
    /\ ppc = [p \in Producers |-> "idle"]
    /\ pev = [p \in Producers |-> NoEvent]
    /\ pignore = [p \in Producers |-> FALSE]
    /\ pnotify = [p \in Producers |-> FALSE]
    /\ cpc = "loop"
    /\ cstate = kStateDetecting
    /\ cparam = NoParameters
    /\ cdata = NoData
    /\ kpc = "idle"
    /\ lastProcessed = 0
    /\ lastUserDataSet = -1
    /\ rtabmapPath = <<>>
    /\ nEvents = 0
    /\ nAppended = 0
    /\ lastDequeued = 0
    /\ sizeLowered = FALSE
    /\ prevPose = Identity
    /\ cframe = FALSE
    /\ cbelow = 0
    /\ killMark = -1
    /\ nTicks = 0
    /\ failed = FALSE
    /\ closeMark = 0
    /\ requested = [setter |-> "none", value |-> 0, call |-> 0]
    /\ called = <<>>
    /\ posted = <<>>

\* ------------------------------------------------------------- producers
\* a producer is between two handler calls and may make another.  The
\* producers run the same code and keep nothing between calls, so of two
\* idle producers the first is the one that makes the next call.
CanSubmit(p) ==
    /\ ppc[p] = "idle"
    /\ nEvents < MaxEvents
    /\ p # FirstProducer => ppc[FirstProducer] # "idle"

\* RtabmapThread::pushNewState, the part under _stateMutex
PushState(newState, parameters) ==
    /\ state' = Push(state, newState)
    /\ stateParam' = Push(stateParam, parameters)

\* addData up to the odometry-reset test (lines 483-499): reads _paused,
\* _rate, the timer, _dataBufferMaxSize and lastPose_; on a reset it pushes
\* kStateTriggeringMap
AddDataBegin(p, ev) ==
    IF ~AcceptsData(paused)
    THEN /\ UNCHANGED <<coordVars, producerVars, prevPose>>
    ELSE /\ pev' = [pev EXCEPT ![p] = ev]
         /\ prevPose' = ev.pose
         /\ pignore' = [pignore EXCEPT ![p] = IgnoreFrame(rate, elapsed)]
         /\ IF IsOdometryReset(dataBufferMaxSize, lastPose, ev.pose)
            THEN /\ PushState(kStateTriggeringMap, NoParameters)
                 /\ ppc' = [ppc EXCEPT ![p] = "resetRelease"]
            ELSE /\ UNCHANGED <<state, stateParam>>
                 /\ ppc' = [ppc EXCEPT ![p] = "accumulate"]
         /\ UNCHANGED <<dataBuffer, dataAdded, dataMutex, dataBufferMaxSize, rate,
                        createIntermediateNodes, paused, lastPose, rotVariance,
                        transVariance, userData, elapsed, running, pnotify>>

\* Transform::setNull (line 304): the transform becomes the null transform
SetNullMut(transform) == transform
SetNull(transform) == NullPose

\* handleEvent, OdometryEvent (lines 294-306)
OdometryEvent(p, id, pose, rotVar, transVar) ==
    /\ CanSubmit(p)
    /\ nEvents' = nEvents + 1
    /\ IF pose # NullPose
       THEN AddDataBegin(p, [id |-> id, pose |-> pose,
                             rotVariance |-> rotVar, transVariance |-> transVar])
       ELSE /\ lastPose' = SetNull(lastPose)
            /\ prevPose' = NullPose
            /\ UNCHANGED <<dataBuffer, state, stateParam, dataAdded, dataMutex,
                           dataBufferMaxSize, rate, createIntermediateNodes, paused,
                           rotVariance, transVariance, userData, elapsed, running,
                           producerVars>>
    /\ UNCHANGED <<consumerVars, kpc, engineVars, nAppended, lastDequeued,
                   sizeLowered, killMark>>
    /\ UNCHANGED traceVars

\* handleEvent, CameraEvent (lines 285-293): data with Transform(), the null
\* transform, and variances 1, 1; only while the thread is running
CameraEvent(p, id) ==
    /\ CanSubmit(p)
    /\ nEvents' = nEvents + 1
    /\ IF running
       THEN AddDataBegin(p, [id |-> id, pose |-> NullPose,
                             rotVariance |-> 1, transVariance |-> 1])
       ELSE UNCHANGED <<coordVars, producerVars, prevPose>>
    /\ UNCHANGED <<consumerVars, kpc, engineVars, nAppended, lastDequeued,
                   sizeLowered, killMark>>
    /\ UNCHANGED traceVars

\* addData after a detected reset: pushNewState's _dataAdded.release(), then
\* the accumulators are zeroed (lines 496-498)
AddDataResetRelease(p) ==
    /\ ppc[p] = "resetRelease"
    /\ dataAdded' = Release(dataAdded)
    /\ rotVariance' = 0
    /\ transVariance' = 0
    /\ ppc' = [ppc EXCEPT ![p] = "accumulate"]
    /\ UNCHANGED <<dataBuffer, state, stateParam, dataMutex, dataBufferMaxSize, rate,
                   createIntermediateNodes, paused, lastPose, userData, elapsed,
                   running, pev, pignore, pnotify>>
    /\ UNCHANGED <<consumerVars, kpc, engineVars, historyVars, ghostVars>>
    /\ UNCHANGED traceVars

\* addData lines 501-520: the drop of an ignored frame, the timer restart,
\* lastPose_ and the variance accumulators
AddDataAccumulate(p) ==
    /\ ppc[p] = "accumulate"
    /\ IF pignore[p] /\ ~createIntermediateNodes
       THEN /\ ppc' = [ppc EXCEPT ![p] = "idle"]
            /\ pev' = [pev EXCEPT ![p] = NoEvent]
            /\ pignore' = [pignore EXCEPT ![p] = FALSE]
            /\ UNCHANGED <<lastPose, rotVariance, transVariance, elapsed>>
       ELSE /\ elapsed' = IF pignore[p] THEN elapsed ELSE 0
            /\ lastPose' = pev[p].pose
            /\ rotVariance' = MaxVariance(rotVariance, pev[p].rotVariance)
            /\ transVariance' = MaxVariance(transVariance, pev[p].transVariance)
            /\ ppc' = [ppc EXCEPT ![p] = "append"]
            /\ UNCHANGED <<pev, pignore>>
    /\ UNCHANGED <<dataBuffer, state, stateParam, dataAdded, dataMutex,
                   dataBufferMaxSize, rate, createIntermediateNodes, paused,
                   userData, running, pnotify>>
    /\ UNCHANGED <<consumerVars, kpc, engineVars, historyVars, ghostVars>>
    /\ UNCHANGED traceVars

\* addData lines 522-550: _dataMutex.lock(), the variance floor, push_back,
\* the accumulators back to 0
AddDataAppend(p) ==
    /\ ppc[p] = "append"
    /\ dataMutex = NoThread
    /\ dataMutex' = p
    /\ dataBuffer' = Append(dataBuffer,
                            BufferedEvent(pev[p], pignore[p],
                                          FloorVariance(rotVariance),
                                          FloorVariance(transVariance),
                                          nAppended + 1))
    /\ rotVariance' = 0
    /\ transVariance' = 0
    /\ pnotify' = [pnotify EXCEPT ![p] = TRUE]
    /\ ppc' = [ppc EXCEPT ![p] = "evict"]
    /\ nAppended' = nAppended + 1
    /\ UNCHANGED <<state, stateParam, dataAdded, dataBufferMaxSize, rate,
                   createIntermediateNodes, paused, lastPose, userData, elapsed,
                   running, pev, pignore>>
    /\ UNCHANGED <<consumerVars, kpc, engineVars, nEvents, lastDequeued, ghostVars>>
    /\ UNCHANGED traceVars

\* addData lines 551-558: one evaluation of the eviction loop's condition;
\* the loop's exit unlocks _dataMutex
AddDataEvict(p) ==
    /\ ppc[p] = "evict"
    /\ IF BufferFull(dataBufferMaxSize, dataBuffer)
       THEN /\ dataBuffer' = PopFront(dataBuffer)
            /\ pnotify' = [pnotify EXCEPT ![p] = FALSE]
            /\ UNCHANGED <<dataMutex, ppc, sizeLowered>>
       ELSE /\ dataMutex' = Unlock(dataMutex)
            /\ ppc' = [ppc EXCEPT ![p] = "notify"]
            /\ sizeLowered' = FALSE
            /\ UNCHANGED <<dataBuffer, pnotify>>
    /\ UNCHANGED <<state, stateParam, dataAdded, dataBufferMaxSize, rate,
                   createIntermediateNodes, paused, lastPose, rotVariance,
                   transVariance, userData, elapsed, running, pev, pignore>>
    /\ UNCHANGED <<consumerVars, kpc, engineVars, historyVars, prevPose, killMark>>
    /\ UNCHANGED traceVars

\* addData lines 560-563: if(notify) _dataAdded.release()
AddDataNotify(p) ==
    /\ ppc[p] = "notify"
    /\ dataAdded' = Notify(pnotify[p], dataAdded)
    /\ ppc' = [ppc EXCEPT ![p] = "idle"]
    /\ pev' = [pev EXCEPT ![p] = NoEvent]
    /\ pignore' = [pignore EXCEPT ![p] = FALSE]
    /\ pnotify' = [pnotify EXCEPT ![p] = FALSE]
    /\ UNCHANGED <<dataBuffer, state, stateParam, dataMutex, dataBufferMaxSize, rate,
                   createIntermediateNodes, paused, lastPose, rotVariance,
                   transVariance, userData, elapsed, running>>
    /\ UNCHANGED <<consumerVars, kpc, engineVars, historyVars, ghostVars>>
    /\ UNCHANGED traceVars

\* pushNewState's _dataAdded.release(), the handler's last step
PushRelease(p) ==
    /\ ppc[p] = "release"
    /\ dataAdded' = Release(dataAdded)
    /\ ppc' = [ppc EXCEPT ![p] = "idle"]
    /\ UNCHANGED <<dataBuffer, state, stateParam, dataMutex, dataBufferMaxSize, rate,
                   createIntermediateNodes, paused, lastPose, rotVariance,
                   transVariance, userData, elapsed, running, pev, pignore, pnotify>>
    /\ UNCHANGED <<consumerVars, kpc, engineVars, historyVars, ghostVars>>
    /\ UNCHANGED traceVars

\* handleEvent, UserDataEvent (lines 307-332), the part under _userDataMutex;
\* the state is pushed unless a pending blob was replaced
UserDataEvent(p, data) ==
    /\ CanSubmit(p)
    /\ nEvents' = nEvents + 1
    /\ IF ~AcceptsData(paused)
       THEN UNCHANGED <<userData, ppc>>
       ELSE LET updated == Updated(data, userData)
            IN  /\ userData' = IF data # EmptyMat THEN data ELSE userData
                /\ ppc' = [ppc EXCEPT ![p] = IF updated THEN "idle" ELSE "pushUserData"]
    /\ UNCHANGED <<dataBuffer, state, stateParam, dataAdded, dataMutex,
                   dataBufferMaxSize, rate, createIntermediateNodes, paused,
                   lastPose, rotVariance, transVariance, elapsed, running,
                   pev, pignore, pnotify>>
    /\ UNCHANGED <<consumerVars, kpc, engineVars, nAppended, lastDequeued, ghostVars>>
    /\ UNCHANGED traceVars

\* handleEvent, UserDataEvent: pushNewState(kStateAddingUserData) (line 329)
UserDataPush(p) ==
    /\ ppc[p] = "pushUserData"
    /\ PushState(kStateAddingUserData, NoParameters)
    /\ ppc' = [ppc EXCEPT ![p] = "release"]
    /\ UNCHANGED <<dataBuffer, dataAdded, dataMutex, dataBufferMaxSize, rate,
                   createIntermediateNodes, paused, lastPose, rotVariance,
                   transVariance, userData, elapsed, running, pev, pignore, pnotify>>
    /\ UNCHANGED <<consumerVars, kpc, engineVars, historyVars, ghostVars>>
    /\ UNCHANGED traceVars

\* RtabmapEventCmd::Cmd values whose handler pushes a state with no parameter
kCmdClose == "kCmdClose"
kCmdResetMemory == "kCmdResetMemory"
kCmdDumpMemory == "kCmdDumpMemory"
kCmdDumpPrediction == "kCmdDumpPrediction"
kCmdCleanDataBuffer == "kCmdCleanDataBuffer"
kCmdTriggerNewMap == "kCmdTriggerNewMap"
kCmdCancelGoal == "kCmdCancelGoal"

\* handleEvent, RtabmapEventCmd: the state each of these commands pushes
CmdState(cmd) ==
    CASE cmd = kCmdClose -> kStateClose
      [] cmd = kCmdResetMemory -> kStateReseting
      [] cmd = kCmdDumpMemory -> kStateDumpingMemory
      [] cmd = kCmdDumpPrediction -> kStateDumpingPrediction
      [] cmd = kCmdCleanDataBuffer -> kStateCleanDataBuffer
      [] cmd = kCmdTriggerNewMap -> kStateTriggeringMap
      [] cmd = kCmdCancelGoal -> kStateCancellingGoal

\* a handler that only calls pushNewState: the push under _stateMutex
SubmitState(p, newState, parameters) ==
    /\ CanSubmit(p)
    /\ nEvents' = nEvents + 1
    /\ PushState(newState, parameters)
    /\ ppc' = [ppc EXCEPT ![p] = "release"]
    /\ UNCHANGED <<dataBuffer, dataAdded, dataMutex, dataBufferMaxSize, rate,
                   createIntermediateNodes, paused, lastPose, rotVariance,
                   transVariance, userData, elapsed, running, pev, pignore, pnotify>>
    /\ UNCHANGED <<consumerVars, kpc, engineVars, nAppended, lastDequeued, ghostVars>>
    /\ UNCHANGED traceVars

\* handleEvent, RtabmapEventCmd with a parameterless command
CmdEvent(p, cmd) == SubmitState(p, CmdState(cmd), NoParameters)

\* handleEvent, kCmdInit (lines 337-344): the database path (value1) joins
\* the event's parameters
CmdInit(p, path, parameters) ==
    SubmitState(p, kStateInit, parameters \cup {<<kDatabasePath, path>>})

\* handleEvent, kCmdGoal (lines 420-428): value1 is a label (isStr) or a
\* node id
CmdGoal(p, isStr, value1) ==
    SubmitState(p, kStateSettingGoal,
                {<<"id", IF ~isStr THEN ToStr(value1) ELSE <<"0">>>>,
                 <<"label", IF isStr THEN value1 ELSE "">>})

\* handleEvent, kCmdLabel (lines 434-443): value1 is the label, value2 the
\* node id unless undefined
CmdLabel(p, value1, isUndef, value2) ==
    SubmitState(p, kStateLabelling,
                {<<"id", IF isUndef THEN <<"0">> ELSE ToStr(value2)>>,
                 <<"label", value1>>})

\* what a call of a setter or a command with flags was asked for, and the
\* number of the call
Request(name, arg) == [setter |-> name, value |-> arg, call |-> nEvents + 1]

\* UVariant::toStr of a bool, and uStr2Bool, which takes every string but
\* "false", "FALSE" and "0" for true
BoolToStr(b) == IF b THEN "true" ELSE "false"
UStr2Bool(s) == s \notin {"false", "FALSE", "0"}

\* a handler that pushes a state built from the command's values: the push
\* under _stateMutex, and the values the command came with
SubmitCommand(p, cmd, values, newState, parameters) ==
    /\ CanSubmit(p)
    /\ nEvents' = nEvents + 1
    /\ PushState(newState, parameters)
    /\ ppc' = [ppc EXCEPT ![p] = "release"]
    /\ requested' = Request(cmd, values)
    /\ UNCHANGED <<dataBuffer, dataAdded, dataMutex, dataBufferMaxSize, rate,
                   createIntermediateNodes, paused, lastPose, rotVariance,
                   transVariance, userData, elapsed, running, pev, pignore, pnotify>>
    /\ UNCHANGED <<consumerVars, kpc, engineVars, nAppended, lastDequeued, ghostVars>>
    /\ UNCHANGED <<nTicks, called, posted, failed, closeMark>>

\* handleEvent, kCmdExportPoses (lines 378-392): value1 and value2 are
\* bools, value3 the path, value4 the format if it is an int; "global" and
\* "optimized" are both written from value1
CmdExportPoses(p, value1, value2, value3, isInt, value4) ==
    SubmitCommand(p, "kCmdExportPoses", <<value1, value2>>, kStateExportingPoses,
                  {<<"path", value3>>,
                   <<"optimized", BoolToStr(value1)>>,
                   <<"global", BoolToStr(value1)>>,
                   <<"type", IF isInt THEN ToStr(value4) ELSE <<"0">>>>})

\* handleEvent, kCmdPublish3DMap (lines 398-409): three bools
CmdPublish3DMap(p, value1, value2, value3) ==
    SubmitCommand(p, "kCmdPublish3DMap", <<value1, value2, value3>>, kStatePublishingMap,
                  {<<"optimized", BoolToStr(value2)>>,
                   <<"global", BoolToStr(value1)>>,
                   <<"graph_only", BoolToStr(value3)>>})

\* handleEvent, ParamEvent (lines 449-453)
ParamEvent(p, parameters) == SubmitState(p, kStateChangingParameters, parameters)

\* handleEvent, kCmdPause (lines 415-419)
CmdPause(p) ==
    /\ CanSubmit(p)
    /\ nEvents' = nEvents + 1
    /\ paused' = ~paused
    /\ UNCHANGED <<dataBuffer, state, stateParam, dataAdded, dataMutex,
                   dataBufferMaxSize, rate, createIntermediateNodes, lastPose,
                   rotVariance, transVariance, userData, elapsed, running>>
    /\ UNCHANGED <<producerVars, consumerVars, kpc, engineVars, nAppended, lastDequeued,
                   ghostVars>>
    /\ UNCHANGED traceVars

\* RtabmapThread::setDataBufferSize (lines 110-113)
SetDataBufferSize(p, size) ==
    /\ CanSubmit(p)
    /\ nEvents' = nEvents + 1
    /\ dataBufferMaxSize' = size
    /\ sizeLowered' = (sizeLowered \/ Lowered(dataBufferMaxSize, size))
    /\ requested' = Request("setDataBufferSize", size)
    /\ UNCHANGED <<dataBuffer, state, stateParam, dataAdded, dataMutex, rate,
                   createIntermediateNodes, paused, lastPose, rotVariance,
                   transVariance, userData, elapsed, running>>
    /\ UNCHANGED <<producerVars, consumerVars, kpc, engineVars, nAppended, lastDequeued,
                   prevPose, killMark>>
    /\ UNCHANGED <<nTicks, called, posted, failed, closeMark>>

\* RtabmapThread::setDetectorRate (lines 104-108): UASSERT(rate >= 0.0f) ends
\* the process for a negative rate, so the call has no successor then
SetDetectorRate(p, newRate) ==
    /\ CanSubmit(p)
    /\ newRate >= 0
    /\ nEvents' = nEvents + 1
    /\ rate' = newRate
    /\ requested' = Request("setDetectorRate", newRate)
    /\ UNCHANGED <<dataBuffer, state, stateParam, dataAdded, dataMutex, dataBufferMaxSize,
                   createIntermediateNodes, paused, lastPose, rotVariance,
                   transVariance, userData, elapsed, running>>
    /\ UNCHANGED <<producerVars, consumerVars, kpc, engineVars, nAppended, lastDequeued,
                   ghostVars>>
    /\ UNCHANGED <<nTicks, called, posted, failed, closeMark>>

\* RtabmapThread::createIntermediateNodes (lines 115-118): the assignment
\* enabled = _createIntermediateNodes writes the argument, a local of the
\* call, and no field
CreateIntermediateNodes(p, enabled) ==
    /\ CanSubmit(p)
    /\ nEvents' = nEvents + 1
    /\ requested' = Request("createIntermediateNodes", enabled)
    /\ UNCHANGED <<coordVars, producerVars, consumerVars, kpc, engineVars, nAppended,
                   lastDequeued, ghostVars>>
    /\ UNCHANGED <<nTicks, called, posted, failed, closeMark>>

\* the frame-rate timer advances
Tick ==
    /\ elapsed < MaxElapsed
    /\ elapsed' = elapsed + TickMs
    /\ UNCHANGED <<dataBuffer, state, stateParam, dataAdded, dataMutex,
                   dataBufferMaxSize, rate, createIntermediateNodes, paused,
                   lastPose, rotVariance, transVariance, userData, running>>
    /\ UNCHANGED <<producerVars, consumerVars, kpc, engineVars, historyVars, ghostVars>>
    /\ UNCHANGED traceVars

\* the period of a source that posts its frames at a steady 50 Hz, in ms
FramePeriodMs == 1000 \div 50

\* handleEvent, OdometryEvent (lines 294-306), called by the steady source:
\* frame n is posted once the clock stands at n - 1 periods
SteadyFrame(p) ==
    /\ ppc[p] = "idle"
    /\ nEvents = nTicks
    /\ nTicks < MaxTicks
    /\ nEvents' = nEvents + 1
    /\ AddDataBegin(p, [id |-> nEvents + 1, pose |-> OtherPose,
                        rotVariance |-> 0, transVariance |-> 2])
    /\ UNCHANGED <<consumerVars, kpc, engineVars, nAppended, lastDequeued,
                   sizeLowered, killMark>>
    /\ UNCHANGED traceVars

\* the time the frame-rate timer, started by the constructor, has run when
\* the steady source posts its first frame
SteadyStart ==
    /\ nEvents = 0
    /\ elapsed = 0
    /\ \E ms \in 1 .. MaxElapsed : elapsed' = ms
    /\ UNCHANGED <<dataBuffer, state, stateParam, dataAdded, dataMutex,
                   dataBufferMaxSize, rate, createIntermediateNodes, paused,
                   lastPose, rotVariance, transVariance, userData, running>>
    /\ UNCHANGED <<producerVars, consumerVars, kpc, engineVars, historyVars, ghostVars>>
    /\ UNCHANGED traceVars

\* the frame-rate timer and the source's clock advance by one period, after
\* the call for the period's frame has returned
SteadyTick ==
    /\ \A p \in Producers : ppc[p] = "idle"
    /\ nEvents = nTicks + 1
    /\ elapsed' = elapsed + FramePeriodMs
    /\ nTicks' = nTicks + 1
    /\ UNCHANGED <<dataBuffer, state, stateParam, dataAdded, dataMutex,
                   dataBufferMaxSize, rate, createIntermediateNodes, paused,
                   lastPose, rotVariance, transVariance, userData, running>>
    /\ UNCHANGED <<producerVars, consumerVars, kpc, engineVars, historyVars, ghostVars,
                   called, posted, failed, closeMark,
                   requested>>

\* -------------------------------------------------------------- consumer
\* clearBufferedData, the part under _dataMutex (lines 88-95)
ClearDataSectionMut ==
    /\ dataMutex = NoThread
    /\ dataBuffer' = <<>>
    /\ UNCHANGED <<lastPose, rotVariance, transVariance, prevPose>>

ClearDataSection ==
    /\ dataMutex = NoThread
    /\ dataBuffer' = <<>>
    /\ lastPose' = Identity
    /\ rotVariance' = 0
    /\ transVariance' = 0
    /\ prevPose' = Identity

\* clearBufferedData, the part under _userDataMutex (lines 97-101)
ClearUserDataSection == userData' = EmptyMat

\* mainLoop, kStateClose: if(_dataBuffer.size())
NeedsClearMut(size) == FALSE
NeedsClear(size) == size # 0

\* mainLoop's switch: kStateDetecting runs process(), any other state its case
DispatchMut(st) == "process"
Dispatch(st) == IF st = kStateDetecting THEN "process" ELSE "exec"

\* UThread's loop around mainLoop: it ends once the thread is no longer running
MainLoopEnd ==
    /\ cpc = "loop"
    /\ ~running
    /\ cpc' = "done"
    /\ UNCHANGED <<coordVars, producerVars, cstate, cparam, cdata, cframe, cbelow, kpc, engineVars,
                   historyVars, ghostVars>>
    /\ UNCHANGED traceVars

\* mainLoop lines 164-177: the top of the state stack is popped, if any
MainLoopPop ==
    /\ cpc = "loop"
    /\ running
    /\ IF state # <<>> /\ stateParam # <<>>
       THEN /\ cstate' = Top(state)
            /\ state' = Pop(state)
            /\ cparam' = Top(stateParam)
            /\ stateParam' = Pop(stateParam)
       ELSE /\ cstate' = kStateDetecting
            /\ cparam' = NoParameters
            /\ UNCHANGED <<state, stateParam>>
    /\ cpc' = Dispatch(cstate')
    /\ cframe' = (dataBuffer # <<>>)
    /\ cbelow' = Len(state')
    /\ UNCHANGED <<dataBuffer, dataAdded, dataMutex, dataBufferMaxSize, rate,
                   createIntermediateNodes, paused, lastPose, rotVariance,
                   transVariance, userData, elapsed, running>>
    /\ called' = <<>>
    /\ posted' = <<>>
    /\ closeMark' = IF cstate' = kStateClose THEN nAppended ELSE closeMark
    /\ UNCHANGED <<producerVars, cdata, kpc, engineVars, historyVars, ghostVars, nTicks, failed,
                   requested>>

\* process() line 462: _state.empty(), read without _stateMutex
ProcessCheckState ==
    /\ cpc = "process"
    /\ cpc' = IF state = <<>> THEN "acquire" ELSE "loop"
    /\ UNCHANGED <<coordVars, producerVars, cstate, cparam, cdata, cframe, cbelow, kpc, engineVars,
                   historyVars, ghostVars>>
    /\ UNCHANGED traceVars

\* USemaphore::acquire once the count is positive: it takes one
AcquireMut(count) == count
AcquireTwoMut(count) == count - 2
Acquire(count) == count - 1

\* getData line 572: _dataAdded.acquire()
GetDataAcquire ==
    /\ cpc = "acquire"
    /\ dataAdded > 0
    /\ dataAdded' = Acquire(dataAdded)
    /\ cpc' = "getData"
    /\ UNCHANGED <<dataBuffer, state, stateParam, dataMutex, dataBufferMaxSize, rate,
                   createIntermediateNodes, paused, lastPose, rotVariance,
                   transVariance, userData, elapsed, running>>
    /\ UNCHANGED <<producerVars, cstate, cparam, cdata, cframe, cbelow, kpc, engineVars,
                   historyVars, ghostVars>>
    /\ UNCHANGED traceVars

\* getData lines 575-586: the front of the buffer, if any, under _dataMutex
GetDataPop ==
    /\ cpc = "getData"
    /\ dataMutex = NoThread
    /\ IF dataBuffer # <<>>
       THEN /\ cdata' = Front(dataBuffer)
            /\ dataBuffer' = PopFront(dataBuffer)
            /\ lastDequeued' = Front(dataBuffer).seq
            /\ cpc' = "engine"
       ELSE /\ cpc' = "loop"
            /\ UNCHANGED <<cdata, dataBuffer, lastDequeued>>
    /\ UNCHANGED <<state, stateParam, dataAdded, dataMutex, dataBufferMaxSize, rate,
                   createIntermediateNodes, paused, lastPose, rotVariance,
                   transVariance, userData, elapsed, running>>
    /\ UNCHANGED <<producerVars, cstate, cparam, cframe, cbelow, kpc, engineVars, nEvents,
                   nAppended, ghostVars>>
    /\ UNCHANGED traceVars

\* process() lines 464-477: the frame goes to the engine if it has a memory
ProcessData ==
    /\ cpc = "engine"
    /\ IF HasMemory(memory)
       THEN \E processed \in BOOLEAN :
               /\ lastProcessed' = cdata.seq
               /\ called' = Append(called, ProcessCall(cdata.seq, processed))
               /\ posted' = IF processed
                             THEN Append(posted, StatisticsEvent(Len(dataBuffer)))
                             ELSE posted
       ELSE UNCHANGED <<lastProcessed, called, posted>>
    /\ cdata' = NoData
    /\ cpc' = "loop"
    /\ UNCHANGED <<coordVars, producerVars, cstate, cparam, cframe, cbelow, kpc, memory,
                   lastUserDataSet, rtabmapPath, historyVars, ghostVars, nTicks, failed, closeMark,
                   requested>>

\* mainLoop, kStateInit (lines 186-194): the assertion on the database path,
\* the three settings, the assertions on the size and the rate, the engine's
\* init
ExecInit ==
    /\ cpc = "exec"
    /\ cstate = kStateInit
    /\ IF ~HasKey(cparam, kDatabasePath) \/ ValueAt(cparam, kDatabasePath) = ""
       THEN /\ cpc' = "fatal"
            /\ UNCHANGED <<dataBufferMaxSize, rate, createIntermediateNodes, memory,
                           sizeLowered, called>>
       ELSE /\ dataBufferMaxSize' = Parse(cparam, kRtabmapImageBufferSize, dataBufferMaxSize)
            /\ rate' = Parse(cparam, kRtabmapDetectionRate, rate)
            /\ createIntermediateNodes' =
                   Parse(cparam, kRtabmapCreateIntermediateNodes, createIntermediateNodes)
            /\ sizeLowered' = (sizeLowered \/ Lowered(dataBufferMaxSize, dataBufferMaxSize'))
            /\ IF dataBufferMaxSize' < 0 \/ rate' < 0
               THEN /\ cpc' = "fatal"
                    /\ UNCHANGED <<memory, called>>
               ELSE /\ memory' = TRUE
                    /\ called' = Append(called, <<"init", ValueAt(cparam, kDatabasePath)>>)
                    /\ cpc' = "loop"
    /\ UNCHANGED <<dataBuffer, state, stateParam, dataAdded, dataMutex, paused,
                   lastPose, rotVariance, transVariance, userData, elapsed, running>>
    /\ UNCHANGED <<producerVars, cstate, cparam, cdata, cframe, cbelow, kpc, lastProcessed,
                   lastUserDataSet, rtabmapPath, historyVars, prevPose, killMark>>
    /\ UNCHANGED <<nTicks, posted, failed, closeMark,
                   requested>>

\* mainLoop, kStateChangingParameters (lines 195-202)
ExecChangingParameters ==
    /\ cpc = "exec"
    /\ cstate = kStateChangingParameters
    /\ dataBufferMaxSize' = Parse(cparam, kRtabmapImageBufferSize, dataBufferMaxSize)
    /\ rate' = Parse(cparam, kRtabmapDetectionRate, rate)
    /\ createIntermediateNodes' =
           Parse(cparam, kRtabmapCreateIntermediateNodes, createIntermediateNodes)
    /\ sizeLowered' = (sizeLowered \/ Lowered(dataBufferMaxSize, dataBufferMaxSize'))
    /\ cpc' = "loop"
    /\ UNCHANGED <<dataBuffer, state, stateParam, dataAdded, dataMutex, paused,
                   lastPose, rotVariance, transVariance, userData, elapsed, running>>
    /\ UNCHANGED <<producerVars, cstate, cparam, cdata, cframe, cbelow, kpc, engineVars,
                   historyVars, prevPose, killMark>>
    /\ UNCHANGED traceVars

\* the states whose case begins with clearBufferedData (after resetMemory
\* for kStateReseting): lines 203-206 and 234-236
ClearingStates == {kStateReseting, kStateCleanDataBuffer}

ExecClearing ==
    /\ cpc = "exec"
    /\ cstate \in ClearingStates
    /\ called' = IF cstate = kStateReseting
                 THEN Append(called, <<"resetMemory">>)
                 ELSE called
    /\ cpc' = "clearData"
    /\ UNCHANGED <<coordVars, producerVars, cstate, cparam, cdata, cframe, cbelow, kpc, engineVars,
                   historyVars, ghostVars>>
    /\ UNCHANGED <<nTicks, posted, failed, closeMark,
                   requested>>

\* mainLoop, kStateClose (lines 207-212): _dataBuffer.size() read without
\* _dataMutex; a non-empty buffer is cleared before the engine is closed
ExecClose ==
    /\ cpc = "exec"
    /\ cstate = kStateClose
    /\ cpc' = IF NeedsClear(Len(dataBuffer)) THEN "clearData" ELSE "close"
    /\ UNCHANGED <<coordVars, producerVars, cstate, cparam, cdata, cframe, cbelow, kpc, engineVars,
                   historyVars, ghostVars>>
    /\ UNCHANGED traceVars

\* clearBufferedData called by mainLoop: first section
MainLoopClearData ==
    /\ cpc = "clearData"
    /\ ClearDataSection
    /\ cpc' = "clearUserData"
    /\ UNCHANGED <<state, stateParam, dataAdded, dataMutex, dataBufferMaxSize, rate,
                   createIntermediateNodes, paused, userData, elapsed, running>>
    /\ UNCHANGED <<producerVars, cstate, cparam, cdata, cframe, cbelow, kpc, engineVars,
                   historyVars, sizeLowered, killMark>>
    /\ UNCHANGED traceVars

\* clearBufferedData called by mainLoop: second section
MainLoopClearUserData ==
    /\ cpc = "clearUserData"
    /\ ClearUserDataSection
    /\ cpc' = IF cstate = kStateClose THEN "close" ELSE "loop"
    /\ UNCHANGED <<dataBuffer, state, stateParam, dataAdded, dataMutex,
                   dataBufferMaxSize, rate, createIntermediateNodes, paused,
                   lastPose, rotVariance, transVariance, elapsed, running>>
    /\ UNCHANGED <<producerVars, cstate, cparam, cdata, cframe, cbelow, kpc, engineVars,
                   historyVars, ghostVars>>
    /\ UNCHANGED traceVars

\* mainLoop, kStateClose (line 213): _rtabmap->close() frees the memory
MainLoopClose ==
    /\ cpc = "close"
    /\ memory' = FALSE
    /\ called' = Append(called, <<"close">>)
    /\ cpc' = "loop"
    /\ UNCHANGED <<coordVars, producerVars, cstate, cparam, cdata, cframe, cbelow, kpc,
                   lastProcessed, lastUserDataSet, rtabmapPath, historyVars, ghostVars>>
    /\ UNCHANGED <<nTicks, posted, failed, closeMark,
                   requested>>

\* mainLoop, kStateAddingUserData (lines 246-254)
ExecAddingUserData ==
    /\ cpc = "exec"
    /\ cstate = kStateAddingUserData
    /\ lastUserDataSet' = userData
    /\ userData' = EmptyMat
    /\ cpc' = "loop"
    /\ UNCHANGED <<dataBuffer, state, stateParam, dataAdded, dataMutex,
                   dataBufferMaxSize, rate, createIntermediateNodes, paused,
                   lastPose, rotVariance, transVariance, elapsed, running>>
    /\ UNCHANGED <<producerVars, cstate, cparam, cdata, cframe, cbelow, kpc, memory, lastProcessed,
                   rtabmapPath, historyVars, ghostVars>>
    /\ UNCHANGED traceVars

\* the states whose case is one call of the engine and touches no field of
\* the coordinator
EngineStates == {kStateDumpingMemory, kStateDumpingPrediction, kStateTriggeringMap,
                 kStateCancellingGoal}

ExecEngine ==
    /\ cpc = "exec"
    /\ cstate \in EngineStates
    /\ rtabmapPath' = IF cstate = kStateCancellingGoal THEN ClearPath ELSE rtabmapPath
    /\ cpc' = "loop"
    /\ UNCHANGED <<coordVars, producerVars, cstate, cparam, cdata, cframe, cbelow, kpc, memory,
                   lastProcessed, lastUserDataSet, historyVars, ghostVars>>
    /\ UNCHANGED traceVars

\* mainLoop, kStateExportingPoses (lines 227-233): one call of the engine
ExecExportingPoses ==
    /\ cpc = "exec"
    /\ cstate = kStateExportingPoses
    /\ called' = <<<<"exportPoses", ValueAt(cparam, "path"),
                     UStr2Bool(ValueAt(cparam, "optimized")),
                     UStr2Bool(ValueAt(cparam, "global")),
                     Atoi(ValueAt(cparam, "type"))>>>>
    /\ cpc' = "loop"
    /\ UNCHANGED <<coordVars, producerVars, cstate, cparam, cdata, cframe, cbelow, kpc,
                   engineVars, historyVars, ghostVars, nTicks, posted, failed, closeMark,
                   requested>>

\* RtabmapThread::publishMap (lines 120-152): the graph or the 3D map is
\* read from the engine and posted
PublishMap(optimized, full, graphOnly) ==
    <<<<"publishMap", optimized, full, graphOnly>>,
      <<IF graphOnly THEN "getGraph" ELSE "get3DMap", optimized, full>>>>

\* mainLoop, kStatePublishingMap (lines 237-242)
ExecPublishingMap ==
    /\ cpc = "exec"
    /\ cstate = kStatePublishingMap
    /\ called' = PublishMap(UStr2Bool(ValueAt(cparam, "optimized")),
                            UStr2Bool(ValueAt(cparam, "global")),
                            UStr2Bool(ValueAt(cparam, "graph_only")))
    /\ posted' = Append(posted, <<"RtabmapEvent3DMap">>)
    /\ cpc' = "loop"
    /\ UNCHANGED <<coordVars, producerVars, cstate, cparam, cdata, cframe, cbelow, kpc,
                   engineVars, historyVars, ghostVars, nTicks, failed, closeMark,
                   requested>>

\* mainLoop, kStateSettingGoal (lines 255-266).  found is what
\* getSignatureIdByLabel returns and reachable what computePath returns, if
\* they are called.
ExecSettingGoal ==
    /\ cpc = "exec"
    /\ cstate = kStateSettingGoal
    /\ \E found \in {-1, 0, 7} : \E reachable \in BOOLEAN :
          LET label == ValueAt(cparam, "label")
              given == Atoi(ValueAt(cparam, "id"))
              lookup == given = 0 /\ label # "" /\ HasMemory(memory)
              id == IF lookup THEN found ELSE given
              reached == id > 0 /\ reachable
          IN  /\ called' = (IF lookup
                            THEN <<<<"getSignatureIdByLabel", label, found>>>>
                            ELSE <<>>)
                           \o (IF id > 0
                               THEN <<<<"computePath", id, reachable>>>>
                               ELSE <<>>)
              /\ rtabmapPath' = IF id > 0 THEN ComputePath(id, reachable) ELSE rtabmapPath
              /\ posted' = posted \o PathEvents(id, reached, rtabmapPath')
              /\ failed' = (failed \/ ~reached)
              /\ cpc' = AfterCase(reached)
    /\ UNCHANGED <<coordVars, producerVars, cstate, cparam, cdata, cframe, cbelow, kpc, memory,
                   lastProcessed, lastUserDataSet, historyVars, ghostVars, nTicks, closeMark,
                   requested>>

\* mainLoop, kStateLabelling (lines 270-275).  labelled is what
\* labelLocation returns.
ExecLabelling ==
    /\ cpc = "exec"
    /\ cstate = kStateLabelling
    /\ \E labelled \in BOOLEAN :
          LET label == ValueAt(cparam, "label")
              id == Atoi(ValueAt(cparam, "id"))
          IN  /\ called' = <<<<"labelLocation", id, label, labelled>>>>
              /\ posted' = posted \o LabelEvents(id, label, labelled)
              /\ failed' = (failed \/ ~labelled)
              /\ cpc' = AfterCase(labelled)
    /\ UNCHANGED <<coordVars, producerVars, cstate, cparam, cdata, cframe, cbelow, kpc, engineVars,
                   historyVars, ghostVars, nTicks, closeMark,
                   requested>>

\* ---------------------------------------------------------------- kill()
\* UThread::kill: the thread leaves the running state, then mainLoopKill
Kill ==
    /\ kpc = "idle"
    /\ running
    /\ running' = FALSE
    /\ kpc' = "clearData"
    /\ UNCHANGED <<dataBuffer, state, stateParam, dataAdded, dataMutex,
                   dataBufferMaxSize, rate, createIntermediateNodes, paused,
                   lastPose, rotVariance, transVariance, userData, elapsed>>
    /\ UNCHANGED <<producerVars, consumerVars, engineVars, historyVars, ghostVars>>
    /\ UNCHANGED traceVars

\* mainLoopKill line 156: clearBufferedData, first section
KillClearData ==
    /\ kpc = "clearData"
    /\ ClearDataSection
    /\ kpc' = "clearUserData"
    /\ killMark' = nAppended
    /\ UNCHANGED <<state, stateParam, dataAdded, dataMutex, dataBufferMaxSize, rate,
                   createIntermediateNodes, paused, userData, elapsed, running>>
    /\ UNCHANGED <<producerVars, consumerVars, engineVars, historyVars, sizeLowered>>
    /\ UNCHANGED traceVars

\* mainLoopKill line 156: clearBufferedData, second section
KillClearUserData ==
    /\ kpc = "clearUserData"
    /\ ClearUserDataSection
    /\ kpc' = "release"
    /\ UNCHANGED <<dataBuffer, state, stateParam, dataAdded, dataMutex,
                   dataBufferMaxSize, rate, createIntermediateNodes, paused,
                   lastPose, rotVariance, transVariance, elapsed, running>>
    /\ UNCHANGED <<producerVars, consumerVars, engineVars, historyVars, ghostVars>>
    /\ UNCHANGED traceVars

\* mainLoopKill line 159: _dataAdded.release()
KillReleaseMut ==
    /\ kpc = "release"
    /\ kpc' = "done"
    /\ UNCHANGED <<coordVars, producerVars, consumerVars, engineVars, historyVars,
                   ghostVars>>
    /\ UNCHANGED traceVars

KillRelease ==
    /\ kpc = "release"
    /\ dataAdded' = dataAdded + 1
    /\ kpc' = "done"
    /\ UNCHANGED <<dataBuffer, state, stateParam, dataMutex, dataBufferMaxSize, rate,
                   createIntermediateNodes, paused, lastPose, rotVariance,
                   transVariance, userData, elapsed, running>>
    /\ UNCHANGED <<producerVars, consumerVars, engineVars, historyVars, ghostVars>>
    /\ UNCHANGED traceVars

\* --------------------------------------------------------- specifications
\* the steps a producer takes inside addData once the call is under way
AddDataSteps(p) ==
    \/ AddDataAccumulate(p)
    \/ AddDataAppend(p)
    \/ AddDataEvict(p)
    \/ AddDataNotify(p)

\* the consumer's steps for kStateDetecting
ConsumerDetecting ==
    \/ MainLoopPop
    \/ ProcessCheckState
    \/ GetDataAcquire
    \/ GetDataPop
    \/ ProcessData

\* the consumer's steps through clearBufferedData
ConsumerClearing ==
    \/ ExecClearing
    \/ MainLoopClearData
    \/ MainLoopClearUserData

\* Spec: the data buffer under two producers and the consumer, with resets
\* of the odometry, runtime changes of the buffer size and kStateReseting.
\* The detection rate is 0 (no frame is ignored).
Init ==
    /\ InitFields
    /\ dataBufferMaxSize = MaxBuf
    /\ rate = 0
    /\ createIntermediateNodes = FALSE
    /\ memory = TRUE

Producer(p) ==
    \/ \E pose \in {Identity, OtherPose} : OdometryEvent(p, NoId, pose, 0, 2)
    \/ AddDataResetRelease(p)
    \/ AddDataSteps(p)
    \/ CmdEvent(p, kCmdResetMemory)
    \/ \E size \in BufferSizes : ParamEvent(p, {<<kRtabmapImageBufferSize, size>>})
    \/ PushRelease(p)

Consumer ==
    \/ ConsumerDetecting
    \/ ConsumerClearing
    \/ ExecChangingParameters
    \/ ExecEngine

Next ==
    \/ \E p \in Producers : Producer(p)
    \/ Consumer

Spec == Init /\ [][Next]_vars

\* SpecSeq: one producer submits numbered frames, nothing is dequeued; the
\* buffer size is any positive size, the detection rate is 0.
InitSeq ==
    /\ InitFields
    /\ dataBufferMaxSize \in BufferSizes \ {0}
    /\ rate = 0
    /\ createIntermediateNodes = FALSE
    /\ memory = TRUE

NextSeq ==
    \/ \E pose \in {Identity, OtherPose} : \E v \in Variances :
           OdometryEvent(FirstProducer, nEvents + 1, pose, v, v)
    \/ CameraEvent(FirstProducer, nEvents + 1)
    \/ AddDataResetRelease(FirstProducer)
    \/ AddDataSteps(FirstProducer)

SpecSeq == InitSeq /\ [][NextSeq]_vars

\* SpecCmd: two producers submit frames and parameterless commands, among
\* them the ones that clear the buffer; the consumer executes them.
ProducerCmd(p) ==
    \/ OdometryEvent(p, NoId, OtherPose, 0, 2)
    \/ AddDataSteps(p)
    \/ \E cmd \in {kCmdClose, kCmdCleanDataBuffer, kCmdDumpMemory, kCmdTriggerNewMap} :
           CmdEvent(p, cmd)
    \/ PushRelease(p)

ConsumerCmd ==
    \/ ConsumerDetecting
    \/ ConsumerClearing
    \/ ExecClose
    \/ MainLoopClose
    \/ ExecEngine

NextCmd == (\E p \in Producers : ProducerCmd(p)) \/ ConsumerCmd

SpecCmd == Init /\ [][NextCmd]_vars

\* SpecPause: two producers submit frames and kCmdPause; the consumer
\* dequeues.
ProducerPause(p) ==
    \/ OdometryEvent(p, NoId, OtherPose, 0, 2)
    \/ CameraEvent(p, NoId)
    \/ AddDataSteps(p)
    \/ CmdPause(p)

NextPause == (\E p \in Producers : ProducerPause(p)) \/ ConsumerDetecting

SpecPause == Init /\ [][NextPause]_vars

\* SpecRate: one producer submits numbered odometry frames while the timer
\* advances, under every detection rate and either setting of the
\* intermediate nodes; nothing is dequeued.
InitRate ==
    /\ InitFields
    /\ dataBufferMaxSize = MaxBuf
    /\ rate \in RateValues
    /\ createIntermediateNodes \in BOOLEAN
    /\ memory = TRUE

NextRate ==
    \/ \E pose \in {Identity, OtherPose} : \E v \in Variances :
           OdometryEvent(FirstProducer, nEvents + 1, pose, v, v)
    \/ AddDataResetRelease(FirstProducer)
    \/ AddDataSteps(FirstProducer)
    \/ Tick

SpecRate == InitRate /\ [][NextRate]_vars

\* SpecUserData: two producers submit non-empty user data, the n-th call
\* the blob n; the consumer executes kStateAddingUserData.
ProducerUserData(p) ==
    \/ UserDataEvent(p, nEvents + 1)
    \/ UserDataPush(p)
    \/ PushRelease(p)

ConsumerUserData ==
    \/ MainLoopPop
    \/ ProcessCheckState
    \/ GetDataAcquire
    \/ GetDataPop
    \/ ExecAddingUserData

NextUserData == (\E p \in Producers : ProducerUserData(p)) \/ ConsumerUserData

SpecUserData == Init /\ [][NextUserData]_vars

\* SpecKill: two producers submit frames, the first of them user data too,
\* the consumer runs its loop and a third thread calls kill() at any time.  Every thread that
\* can take a step eventually takes one.
ProducerKill(p) ==
    \/ OdometryEvent(p, NoId, OtherPose, 0, 2)
    \/ AddDataSteps(p)
    \/ (p = FirstProducer /\ UserDataEvent(p, 1))
    \/ UserDataPush(p)
    \/ PushRelease(p)

\* the steps of a handler call that is under way
ProducerKillSteps(p) ==
    \/ AddDataSteps(p)
    \/ UserDataPush(p)
    \/ PushRelease(p)

ConsumerKill ==
    \/ MainLoopEnd
    \/ ConsumerDetecting
    \/ ExecAddingUserData

Killer ==
    \/ Kill
    \/ KillClearData
    \/ KillClearUserData
    \/ KillRelease

NextKill == (\E p \in Producers : ProducerKill(p)) \/ ConsumerKill \/ Killer

SpecKill ==
    /\ Init
    /\ [][NextKill]_vars
    /\ WF_vars(ConsumerKill)
    /\ WF_vars(KillClearData \/ KillClearUserData \/ KillRelease)
    /\ \A p \in Producers : WF_vars(ProducerKillSteps(p))

\* SpecSteady: one source posts odometry frames at a steady 50 Hz while the
\* detection rate is 10 Hz and no intermediate node is created; the timer has
\* run for any time up to MaxElapsed when the first frame arrives, the buffer
\* has any size, nothing is dequeued.
InitSteady ==
    /\ InitFields
    /\ dataBufferMaxSize \in BufferSizes
    /\ rate \in RateValues \ {0}
    /\ createIntermediateNodes = FALSE
    /\ memory = TRUE

NextSteady ==
    \/ SteadyFrame(FirstProducer)
    \/ AddDataSteps(FirstProducer)
    \/ SteadyTick
    \/ SteadyStart

SpecSteady == InitSteady /\ [][NextSteady]_vars

\* SpecSubmit: the producers and the consumer of SpecKill without kill()
\* and with kCmdCleanDataBuffer; only the producers are sure to take their
\* steps, the consumer may stop at any point.
NextSubmit ==
    \/ \E p \in Producers : ProducerKill(p) \/ CmdEvent(p, kCmdCleanDataBuffer)
    \/ ConsumerDetecting
    \/ ConsumerClearing
    \/ ExecAddingUserData

SpecSubmit ==
    /\ Init
    /\ [][NextSubmit]_vars
    /\ \A p \in Producers : WF_vars(ProducerKillSteps(p))

\* SpecLost: two producers submit odometry events, some of them with the
\* null pose of a lost odometry; the consumer dequeues.
ProducerLost(p) ==
    \/ \E pose \in {OtherPose, NullPose} : OdometryEvent(p, NoId, pose, 0, 2)
    \/ AddDataSteps(p)

NextLost == (\E p \in Producers : ProducerLost(p)) \/ ConsumerDetecting

SpecLost == Init /\ [][NextLost]_vars

\* SpecDetect: two producers submit numbered frames at a detection rate of
\* 10 Hz or unlimited, intermediate nodes created; the consumer dequeues them
\* for an engine that has a memory or has none.
InitDetect ==
    /\ InitFields
    /\ dataBufferMaxSize = MaxBuf
    /\ rate \in RateValues
    /\ createIntermediateNodes = TRUE
    /\ memory \in BOOLEAN

NextDetect ==
    \/ \E p \in Producers : OdometryEvent(p, nEvents + 1, OtherPose, 0, 2)
    \/ \E p \in Producers : AddDataSteps(p)
    \/ Tick
    \/ ConsumerDetecting

SpecDetect == InitDetect /\ [][NextDetect]_vars

\* SpecDrain: the threads of SpecSubmit where the consumer too is sure to
\* take its steps.
SpecDrain ==
    /\ Init
    /\ [][NextSubmit]_vars
    /\ WF_vars(ConsumerDetecting \/ ConsumerClearing \/ ExecAddingUserData)
    /\ \A p \in Producers : WF_vars(ProducerKillSteps(p))

\* SpecSetters: two threads call the three setters and post frames while
\* the timer advances; the consumer dequeues.
NextSetters ==
    \/ \E p \in Producers : \E size \in BufferSizes : SetDataBufferSize(p, size)
    \/ \E p \in Producers : \E newRate \in RateValues \cup {-1} : SetDetectorRate(p, newRate)
    \/ \E p \in Producers : \E enabled \in BOOLEAN : CreateIntermediateNodes(p, enabled)
    \/ \E p \in Producers : OdometryEvent(p, NoId, OtherPose, 0, 2)
    \/ \E p \in Producers : AddDataSteps(p)
    \/ Tick
    \/ ConsumerDetecting

SpecSetters == Init /\ [][NextSetters]_vars

\* SpecGoal: one producer posts frames, goals (by node id and by label) and
\* labels; the consumer executes them on an engine that
\* has a memory or has none.
InitGoal ==
    /\ InitFields
    /\ dataBufferMaxSize = MaxBuf
    /\ rate = 0
    /\ createIntermediateNodes = FALSE
    /\ memory \in BOOLEAN

ProducerGoal(p) ==
    \/ OdometryEvent(p, NoId, OtherPose, 0, 2)
    \/ AddDataSteps(p)
    \/ \E id \in {-1, 0, 12} : CmdGoal(p, FALSE, id)
    \/ \E label \in {"", "kitchen"} : CmdGoal(p, TRUE, label)
    \/ CmdLabel(p, "kitchen", TRUE, 0)
    \/ CmdLabel(p, "kitchen", FALSE, 12)
    \/ PushRelease(p)

ConsumerGoal ==
    \/ ConsumerDetecting
    \/ ExecSettingGoal
    \/ ExecLabelling

NextGoal == ProducerGoal(FirstProducer) \/ ConsumerGoal

SpecGoal == InitGoal /\ [][NextGoal]_vars

\* SpecFailing: one producer posts frames, goals by node id and by label and
\* labels for a node id; the consumer executes them and the engine may refuse
\* each.
\* Every thread that can take a step eventually takes one.
NextFailing ==
    \/ OdometryEvent(FirstProducer, NoId, OtherPose, 0, 2)
    \/ AddDataSteps(FirstProducer)
    \/ CmdGoal(FirstProducer, FALSE, 12)
    \/ CmdGoal(FirstProducer, TRUE, "kitchen")
    \/ CmdLabel(FirstProducer, "kitchen", FALSE, 12)
    \/ PushRelease(FirstProducer)
    \/ ConsumerGoal

SpecFailing ==
    /\ Init
    /\ [][NextFailing]_vars
    /\ WF_vars(ConsumerGoal)
    /\ WF_vars(AddDataSteps(FirstProducer) \/ PushRelease(FirstProducer))

\* SpecExec: two producers post goals and labels for node ids, the n-th
\* handler call for node n; the consumer executes them.  No frame is posted,
\* so getData finds the buffer empty and process() has nothing to hand to the
\* engine.  Every thread that can take a step eventually takes one.
ConsumerExec ==
    \/ MainLoopPop
    \/ ProcessCheckState
    \/ GetDataAcquire
    \/ GetDataPop
    \/ ExecSettingGoal
    \/ ExecLabelling

NextExec ==
    \/ \E p \in Producers : CmdGoal(p, FALSE, nEvents + 1)
    \/ \E p \in Producers : CmdLabel(p, "kitchen", FALSE, nEvents + 1)
    \/ \E p \in Producers : PushRelease(p)
    \/ ConsumerExec

SpecExec ==
    /\ Init
    /\ [][NextExec]_vars
    /\ WF_vars(ConsumerExec)
    /\ \A p \in Producers : WF_vars(PushRelease(p))

\* SpecExport: one client posts kCmdExportPoses and kCmdPublish3DMap with
\* every combination of their flags, each after the command before it was
\* executed, while a second thread posts frames; the consumer executes them.
ConsumerExport ==
    \/ ConsumerDetecting
    \/ ExecExportingPoses
    \/ ExecPublishingMap

NextExport ==
    \/ /\ state = <<>>
       /\ cpc # "exec"
       /\ \E value1, value2, isInt \in BOOLEAN : \E value4 \in {0, 2} :
             CmdExportPoses(FirstProducer, value1, value2, "poses.txt", isInt, value4)
    \/ /\ state = <<>>
       /\ cpc # "exec"
       /\ \E value1, value2, value3 \in BOOLEAN :
             CmdPublish3DMap(FirstProducer, value1, value2, value3)
    \/ PushRelease(FirstProducer)
    \/ \E p \in Producers \ {FirstProducer} : OdometryEvent(p, NoId, OtherPose, 0, 2)
    \/ \E p \in Producers \ {FirstProducer} : AddDataSteps(p)
    \/ ConsumerExport

SpecExport == Init /\ [][NextExport]_vars

\* SpecInit: one producer posts kCmdInit with an empty or a non-empty
\* database path and some of the three settings, among them a negative
\* buffer size; the consumer executes them, starting from any rate and
\* either setting of the intermediate nodes.
InitInit ==
    /\ InitFields
    /\ dataBufferMaxSize = MaxBuf
    /\ rate \in RateValues
    /\ createIntermediateNodes \in BOOLEAN
    /\ memory = FALSE

NextInit ==
    \/ \E path \in {"", "rtabmap.db"} : CmdInit(FirstProducer, path, NoParameters)
    \/ \E settings \in {{<<kRtabmapImageBufferSize, 1>>},
                         {<<kRtabmapDetectionRate, 10>>},
                         {<<kRtabmapDetectionRate, 0>>,
                          <<kRtabmapCreateIntermediateNodes, TRUE>>},
                         {<<kRtabmapImageBufferSize, -1>>}} :
           CmdInit(FirstProducer, "rtabmap.db", settings)
    \/ PushRelease(FirstProducer)
    \/ MainLoopPop
    \/ ProcessCheckState
    \/ GetDataAcquire
    \/ GetDataPop
    \/ ExecInit

SpecInit == InitInit /\ [][NextInit]_vars

\* SpecReset: one producer posts frames, user data, kCmdPause and
\* kCmdResetMemory, and takes no step while the consumer executes
\* kStateReseting.
Reseting == cstate = kStateReseting /\ cpc \in {"exec", "clearData", "clearUserData"}

ProducerReset(p) ==
    \/ OdometryEvent(p, NoId, OtherPose, 0, 2)
    \/ AddDataSteps(p)
    \/ UserDataEvent(p, 1)
    \/ UserDataPush(p)
    \/ CmdPause(p)
    \/ CmdEvent(p, kCmdResetMemory)
    \/ PushRelease(p)

NextReset ==
    \/ ~Reseting /\ ProducerReset(FirstProducer)
    \/ ConsumerDetecting
    \/ ConsumerClearing
    \/ ExecAddingUserData

SpecReset == Init /\ [][NextReset]_vars

\* ----------------------------------------------------------------- C1
\* C1 as stated: whenever no thread is inside addData's section and
\* _dataBufferMaxSize is M > 0, the buffer holds at most M entries, also
\* after M was changed at runtime.
C1_BoundAtAllTimes ==
    (dataMutex = NoThread /\ dataBufferMaxSize > 0)
        => Len(dataBuffer) <= dataBufferMaxSize

\* C1 amended: outside addData's section the buffer holds at most
\* _dataBufferMaxSize entries (when that is > 0), unless the size was
\* lowered since addData last left its section: a lowered size trims
\* nothing by itself, the next addData does.
C1_BoundSinceLastAdd ==
    (dataMutex = NoThread /\ dataBufferMaxSize > 0 /\ ~sizeLowered)
        => Len(dataBuffer) <= dataBufferMaxSize

\* an addData that evicted has left its section with the buffer at its
\* bound, after the size had been changed at runtime
C1_Witness ==
    \E p \in Producers :
        /\ ppc[p] = "notify"
        /\ ~pnotify[p]
        /\ dataMutex = NoThread
        /\ ~sizeLowered
        /\ dataBufferMaxSize = 1
        /\ Len(dataBuffer) = dataBufferMaxSize

\* ----------------------------------------------------------------- C2
Min(a, b) == IF a < b THEN a ELSE b

\* C2: after N accepted enqueues under a maximum size M > 0, with no pause,
\* no rate limit and no dequeue, the buffer holds the min(N, M) frames
\* submitted last, in the order of their submission (SpecSeq numbers the
\* frames 1, 2, ... as they are submitted).
C2_LastMInOrder ==
    (ppc[FirstProducer] = "idle" /\ dataBufferMaxSize > 0) =>
        LET n == nEvents
            k == Min(n, dataBufferMaxSize)
        IN  Ids(dataBuffer) = [i \in 1 .. k |-> n - k + i]

\* more frames than the buffer takes were submitted, and the buffer, of a
\* size above 1, is full
C2_Witness ==
    /\ ppc[FirstProducer] = "idle"
    /\ dataBufferMaxSize > 1
    /\ nEvents > dataBufferMaxSize
    /\ Len(dataBuffer) = dataBufferMaxSize

\* ----------------------------------------------------------------- C3
\* C3: the consumer dequeues frames in the order of their push_back: every
\* frame getData returns was pushed after the frame it returned before.
C3_FifoOrder ==
    [][/\ lastDequeued' >= lastDequeued
       /\ (cpc = "getData" /\ cpc' = "engine") =>
              /\ lastDequeued' > lastDequeued
              /\ cdata'.seq = lastDequeued'
              /\ \A i \in 1 .. Len(dataBuffer') : dataBuffer'[i].seq > lastDequeued']_vars

\* the consumer holds the second frame it dequeued while a later one waits
C3_Witness ==
    /\ cpc = "engine"
    /\ lastDequeued >= 2
    /\ dataBuffer # <<>>

\* ----------------------------------------------------------------- C4
\* a step of the consumer inside a mainLoop call that handles a command
CommandStep == cpc # "loop" /\ cpc' # cpc /\ cstate # kStateDetecting

\* C4 as stated: a mainLoop call that begins with a command on the stack
\* and a frame in the buffer leaves the buffer unchanged.
C4_QueueUntouched ==
    [][(CommandStep /\ cframe) => dataBuffer' = dataBuffer]_vars

\* C4 amended: a mainLoop call that finds a command on the stack pops
\* exactly that one command and executes it; it dequeues no frame and
\* passes none to the engine, and it changes the buffer only by emptying it,
\* which kStateReseting, kStateClose and kStateCleanDataBuffer do.  A call
\* that handles a frame neither pops nor executes a command.
C4_CommandFirst ==
    [][/\ (cpc = "loop" /\ cpc' # cpc /\ state # <<>>) =>
              /\ Len(state') = Len(state) - 1
              /\ cstate' # kStateDetecting
              /\ cpc' = "exec"
              /\ dataBuffer' = dataBuffer
       /\ CommandStep =>
              /\ UNCHANGED <<lastDequeued, lastProcessed, state, stateParam>>
              /\ \/ dataBuffer' = dataBuffer
                 \/ /\ cstate \in {kStateReseting, kStateClose, kStateCleanDataBuffer}
                    /\ dataBuffer' = <<>>
       /\ (cpc # "loop" /\ cpc' # cpc /\ cstate = kStateDetecting) =>
              UNCHANGED <<state, stateParam, memory, userData, lastUserDataSet>>]_vars

\* the consumer popped a command while a frame was queued, and the frame is
\* still queued
C4_Witness ==
    /\ cpc = "exec"
    /\ cframe
    /\ cstate = kStateDumpingMemory
    /\ dataBuffer # <<>>

\* ----------------------------------------------------------------- C5
\* C5: pushNewState puts the new command above the pending ones, and
\* mainLoop pops the command on top, the one pushed last, with its
\* parameters; the commands below stay as they are.
C5_Lifo ==
    [][/\ (cpc = "loop" /\ cpc' # cpc /\ state # <<>>) =>
              /\ cstate' = state[Len(state)]
              /\ cparam' = stateParam[Len(stateParam)]
              /\ state' = SubSeq(state, 1, Len(state) - 1)
              /\ stateParam' = SubSeq(stateParam, 1, Len(stateParam) - 1)
       /\ Len(state') > Len(state) =>
              /\ Len(state') = Len(state) + 1
              /\ SubSeq(state', 1, Len(state)) = state
       /\ Len(stateParam') = Len(state')]_vars

\* two different commands were pending together and the consumer popped the
\* one pushed last
C5_Witness ==
    /\ cpc = "exec"
    /\ cbelow >= 1
    /\ Len(state) = cbelow
    /\ cstate # state[Len(state)]

\* ----------------------------------------------------------------- C6
\* C6: kCmdPause, and nothing else, flips _paused.  A frame submitted while
\* _paused is set leaves the buffer, the semaphore, the state stack, the
\* last pose and the accumulators alone and the call is over at once; a frame
\* submitted while it is not set enters addData.  (In SpecPause a handler
\* call that leaves _paused alone is a frame submission.)
C6_PauseGate ==
    [][/\ paused' # paused =>
              /\ nEvents' = nEvents + 1
              /\ UNCHANGED <<dataBuffer, dataAdded, state, stateParam, ppc>>
       /\ (nEvents' # nEvents /\ paused' = paused /\ paused) =>
              UNCHANGED <<dataBuffer, dataAdded, state, stateParam, lastPose,
                          rotVariance, transVariance, producerVars>>
       /\ (nEvents' # nEvents /\ paused' = paused /\ ~paused /\ running) =>
              \E p \in Producers : ppc[p] = "idle" /\ ppc'[p] = "accumulate"]_vars

\* after kCmdPause a frame was submitted and nothing came of it
C6_Witness ==
    /\ paused
    /\ nEvents = 2
    /\ nAppended = 0
    /\ \A p \in Producers : ppc[p] = "idle"

\* ----------------------------------------------------------------- C7
\* C7 as stated: addData pushes kStateTriggeringMap only for an identity
\* pose that follows a frame whose pose was not the identity, whatever the
\* detection rate: no further identity pose pushes it again.
C7_OneTriggerPerReset ==
    [][\A p \in Producers :
          (ppc[p] = "idle" /\ ppc'[p] = "resetRelease") => prevPose # Identity]_vars

\* ----------------------------------------------------------------- C8
\* kStateAddingUserData commands pushed or about to be pushed and not yet
\* executed
PendingUserDataCmds ==
    Cardinality({i \in DOMAIN state : state[i] = kStateAddingUserData})
    + Cardinality({p \in Producers : ppc[p] = "pushUserData"})
    + (IF cpc = "exec" /\ cstate = kStateAddingUserData THEN 1 ELSE 0)

\* C8: while a blob is pending exactly one kStateAddingUserData command is
\* pending, and none otherwise; when the command is executed setUserData
\* receives the blob submitted last (in SpecUserData the n-th call submits
\* the blob n), so a blob replaced before that is never delivered.
C8_SingleSlot ==
    /\ [](PendingUserDataCmds = IF userData # EmptyMat THEN 1 ELSE 0)
    /\ [][(cpc = "exec" /\ cpc' = "loop" /\ cstate = kStateAddingUserData) =>
              /\ lastUserDataSet' = nEvents
              /\ userData' = EmptyMat]_vars

\* two blobs were submitted, nothing was consumed: the second blob is
\* pending with one command
C8_Witness ==
    /\ nEvents = 2
    /\ \A p \in Producers : ppc[p] = "idle"
    /\ lastUserDataSet = -1
    /\ userData = 2
    /\ state = <<kStateAddingUserData>>

\* ----------------------------------------------------------------- C9
\* a step of mainLoopKill
KillStep == kpc # "idle" /\ kpc' # kpc

\* C9 as stated: mainLoopKill on an empty buffer changes nothing of the
\* buffer, the last pose, the accumulators, the pending blob and the state
\* stack.
C9_NothingChanges ==
    [][(KillStep /\ dataBuffer = <<>>) =>
          UNCHANGED <<dataBuffer, lastPose, rotVariance, transVariance, userData,
                      state, stateParam>>]_vars

\* C9 amended: mainLoopKill on an empty buffer leaves the buffer and the
\* state stack as they are, sets the last pose to the identity and both
\* accumulators to 0, empties the pending blob and releases the semaphore
\* once.  It waits for nothing but _dataMutex, never for the semaphore, and
\* it returns.
C9_KillEffect ==
    /\ [][(KillStep /\ dataBuffer = <<>>) =>
              /\ UNCHANGED <<dataBuffer, state, stateParam>>
              /\ kpc = "clearData" =>
                     /\ lastPose' = Identity
                     /\ rotVariance' = 0
                     /\ transVariance' = 0
                     /\ UNCHANGED <<userData, dataAdded>>
              /\ kpc = "clearUserData" =>
                     /\ userData' = EmptyMat
                     /\ UNCHANGED <<lastPose, rotVariance, transVariance, dataAdded>>
              /\ kpc = "release" =>
                     /\ dataAdded' = dataAdded + 1
                     /\ UNCHANGED <<lastPose, rotVariance, transVariance, userData>>]_vars
    /\ []((kpc = "clearData" /\ dataMutex = NoThread) => ENABLED KillClearData)
    /\ [](kpc = "clearUserData" => ENABLED KillClearUserData)
    /\ [](kpc = "release" => ENABLED KillRelease)
    /\ (kpc = "clearData" ~> kpc = "done")

\* mainLoopKill cleared an empty buffer, every frame appended before having
\* been dequeued, and reset a last pose that was not the identity
C9_Witness ==
    /\ kpc = "clearUserData"
    /\ killMark >= 1
    /\ lastDequeued = killMark
    /\ lastPose = Identity
    /\ userData # EmptyMat

\* ---------------------------------------------------------------- C10
\* C10 as stated: once mainLoopKill has cleared the buffer, getData finds
\* it empty: no frame is dequeued for the engine any more.
C10_NoFrameAfterClear ==
    [][(cpc = "getData" /\ cpc' # cpc /\ killMark >= 0) => cpc' = "loop"]_vars

\* C10 amended: after kill() the consumer is eventually unblocked and its
\* loop ends, with every thread scheduled fairly and whatever the producers
\* do.  No frame that was in the buffer when mainLoopKill cleared it is
\* dequeued; a frame that a producer appends after the clear can still be
\* dequeued and passed to the engine by the mainLoop call under way.
C10_ShutdownEndsLoop ==
    /\ (kpc # "idle") ~> (cpc = "done")
    /\ [](cpc = "done" => ~running)
    /\ [][(cpc = "getData" /\ cpc' = "engine" /\ killMark >= 0) =>
              lastDequeued' > killMark]_vars

\* the loop has ended after kill() and after a frame appended behind the
\* clear was dequeued
C10_Witness ==
    /\ cpc = "done"
    /\ kpc = "done"
    /\ killMark >= 0
    /\ lastDequeued > killMark

\* ----------------------------------------------------------------- C11
\* the frames a rate of r Hz lets through in ms milliseconds: floor(T * R)
Expected(r, ms) == (ms * r) \div 1000

\* the distance of two counts
Distance(a, b) == IF a < b THEN b - a ELSE a - b

\* C11: with the detection rate at 10 Hz, no intermediate nodes and frames
\* posted every 20 ms, the number of frames appended to the buffer after T
\* (nTicks periods) is within 1 of floor(T * R), whatever the timer showed
\* when the first frame arrived.
C11_RateLimit ==
    Distance(nAppended, Expected(rate, nTicks * FramePeriodMs)) <= 1

\* a second full interval has passed and two frames have been appended
C11_Witness ==
    /\ nTicks >= 10
    /\ nAppended = 2
    /\ nEvents > nAppended + 2
    /\ ppc[FirstProducer] = "idle"

\* ----------------------------------------------------------------- C12
\* C12: with the detection rate at 0 and the thread not paused, every
\* OdometryEvent with a non-null pose is appended as a full entry, whatever
\* the timer shows and whatever createIntermediateNodes is: no call decides
\* to ignore its frame, no entry is intermediate, and once the call has
\* returned every frame posted so far has been appended.
C12_UnlimitedRate ==
    rate = 0 =>
        /\ \A p \in Producers : ~pignore[p]
        /\ \A i \in 1 .. Len(dataBuffer) : ~dataBuffer[i].intermediate
        /\ (\A p \in Producers : ppc[p] = "idle") => nAppended = nEvents

\* three frames were posted back to back and after a pause while intermediate
\* nodes are enabled, and all three were appended
C12_Witness ==
    /\ rate = 0
    /\ createIntermediateNodes
    /\ nEvents = MaxEvents
    /\ nAppended = MaxEvents
    /\ elapsed > 0
    /\ \A p \in Producers : ppc[p] = "idle"

\* ----------------------------------------------------------------- C13
\* C13: a call of addData that appends its frame without evicting releases
\* _dataAdded exactly once for it, and a call that evicts at least one entry
\* does not release for its frame; appending and evicting themselves leave
\* the count alone.  With one producer, a fixed size M > 0 and no consumer
\* the n-th append evicts exactly when n > M.
C13_SignalPerNetItem ==
    [][\A p \in Producers :
          /\ (ppc[p] = "notify" /\ ppc'[p] = "idle")
                => dataAdded' = dataAdded
                                + (IF nAppended > dataBufferMaxSize THEN 0 ELSE 1)
          /\ ppc[p] \in {"append", "evict"} => dataAdded' = dataAdded]_vars

\* a call that evicted is about to return: the buffer is full, more frames
\* were appended than it holds, and the call will not release
C13_Witness ==
    /\ ppc[FirstProducer] = "notify"
    /\ ~pnotify[FirstProducer]
    /\ nAppended > dataBufferMaxSize
    /\ Len(dataBuffer) = dataBufferMaxSize
    /\ dataAdded >= dataBufferMaxSize

\* ----------------------------------------------------------------- C14
\* C14 as stated: no call of addData raises the count of _dataAdded by more
\* than one.  With one producer and no consumer the count then never exceeds
\* the number of calls made.
C14_AtMostOnePerCall == dataAdded <= nEvents

\* C14: a call of addData releases _dataAdded at most once for its frame and
\* once more for the kStateTriggeringMap it pushes on an odometry reset: the
\* count rises by one at a time, only at the release of pushNewState and at
\* the call's last step, and never exceeds the calls made plus the states
\* pushed.
C14_OnePerItem ==
    /\ [](dataAdded <= nEvents + Len(state))
    /\ [][dataAdded' # dataAdded
             => /\ dataAdded' = dataAdded + 1
                /\ \E p \in Producers :
                      \/ ppc[p] = "resetRelease" /\ ppc'[p] = "accumulate"
                      \/ ppc[p] = "notify" /\ ppc'[p] = "idle"]_vars

\* the second of two calls detected an odometry reset and appended its frame
\* without evicting: two calls, three releases
C14_Witness ==
    /\ ppc[FirstProducer] = "idle"
    /\ nEvents = 2
    /\ Len(state) = 1
    /\ Len(dataBuffer) = 2
    /\ dataAdded = 3

\* ----------------------------------------------------------------- C15
\* C15: a handler call never waits for _dataAdded and never waits for the
\* consumer.  _dataMutex is held only by a producer inside addData's
\* section (lines 523-558), where it takes no other mutex, does not wait
\* and can always take its next step, so whoever waits for the mutex gets
\* it; and every call that has started returns even if the consumer and
\* kill() never take another step.
C15_NoBlocking ==
    /\ [](dataMutex # NoThread
             => /\ dataMutex \in Producers
                /\ ppc[dataMutex] = "evict"
                /\ ENABLED AddDataEvict(dataMutex))
    /\ \A p \in Producers : (ppc[p] # "idle") ~> (ppc[p] = "idle")

\* a producer waits for _dataMutex, which the other holds, while the
\* consumer waits for _dataAdded
C15_Witness ==
    /\ \E p \in Producers : ppc[p] = "append" /\ dataMutex \in Producers \ {p}
    /\ cpc = "acquire"
    /\ dataAdded = 0

\* ----------------------------------------------------------------- C16
\* C16 as stated: whenever the consumer waits in _dataAdded.acquire() and
\* the count is 0, the buffer and the state stack are empty.
C16_BlockedMeansEmpty ==
    (cpc = "acquire" /\ dataAdded = 0) => (dataBuffer = <<>> /\ state = <<>>)

\* the producers that have added an item and not yet released _dataAdded for
\* it: after pushNewState's push, or after a push_back that no eviction has
\* followed
Unreleased ==
    {p \in Producers : \/ ppc[p] \in {"release", "resetRelease"}
                       \/ ppc[p] \in {"evict", "notify"} /\ pnotify[p]}

\* C16: whenever the consumer waits in _dataAdded.acquire() and the count is
\* 0, the buffer and the state stack hold no more items than there are
\* producers between adding an item and releasing _dataAdded for it; with no
\* such producer both are empty.
C16_BlockedOnlyBeforeRelease ==
    (cpc = "acquire" /\ dataAdded = 0)
        => Len(dataBuffer) + Len(state) <= Cardinality(Unreleased)

\* the consumer waits with the count at 0 while one producer has pushed a
\* state and the other has appended a frame, neither having released yet
C16_Witness ==
    /\ cpc = "acquire"
    /\ dataAdded = 0
    /\ Len(state) = 1
    /\ Len(dataBuffer) = 1
    /\ Cardinality(Unreleased) = 2
    /\ nAppended > 1

\* ----------------------------------------------------------------- C17
\* C17: a frame taken from the buffer while the engine has no memory is gone
\* from the buffer, _rtabmap->process is not called for it, no RtabmapEvent
\* is posted, and mainLoop returns to be called again; the thread keeps
\* running.
C17_UninitialisedDrop ==
    /\ [](cpc = "engine"
             => /\ cdata.seq = lastDequeued
                /\ \A i \in 1 .. Len(dataBuffer) : dataBuffer[i].seq # cdata.seq)
    /\ [][(cpc = "engine" /\ cpc' # cpc /\ ~memory)
             => /\ lastProcessed' = lastProcessed
                /\ called' = <<>>
                /\ posted' = <<>>
                /\ cdata' = NoData
                /\ cpc' = "loop"
                /\ running' = running]_vars

\* after Close a frame was taken from the buffer and dropped: the frame last
\* dequeued is newer than the frame last processed
C17_Witness ==
    /\ ~memory
    /\ cpc = "loop"
    /\ cdata = NoData
    /\ lastDequeued > lastProcessed
    /\ lastProcessed > 0
    /\ called = <<>>
    /\ posted = <<>>
    /\ running

\* ----------------------------------------------------------------- C18
\* C18: a goal that cannot be set and a label that cannot be attached do not
\* end the loop: the case returns to the top of the loop with the thread
\* running, and after such a failure every state on the stack is still
\* popped and every frame in the buffer is still taken.
C18_FailureKeepsLoop ==
    /\ [][(cpc = "exec" /\ cpc' # cpc /\ cstate \in {kStateSettingGoal, kStateLabelling})
             => (cpc' = "loop" /\ running')]_vars
    /\ (failed /\ state # <<>>) ~> (state = <<>>)
    /\ (failed /\ dataBuffer # <<>>) ~> (dataBuffer = <<>>)

\* after a failed command a frame posted later has gone to the engine
C18_Witness ==
    /\ failed
    /\ called # <<>>
    /\ called[1][1] = "process"
    /\ lastProcessed = nAppended
    /\ nEvents = MaxEvents
    /\ cpc = "loop"
    /\ running

\* ----------------------------------------------------------------- C19
\* the RtabmapGlobalPathEvents among the events posted
PathCount(events) ==
    Len(SelectSeq(events, LAMBDA e : e[1] = "RtabmapGlobalPathEvent"))

\* C19: the case kStateSettingGoal posts one RtabmapGlobalPathEvent and
\* nothing else, whether the goal is a node id the engine finds a path to,
\* an id <= 0 or an id computePath fails for; no other step of any thread
\* posts a RtabmapGlobalPathEvent.
C19_OnePathEventPerGoal ==
    [][IF cpc = "exec" /\ cpc' # cpc /\ cstate = kStateSettingGoal
       THEN posted = <<>> /\ Len(posted') = 1 /\ PathCount(posted') = 1
       ELSE PathCount(posted') <= PathCount(posted)]_vars

\* a goal given by a label the memory does not know: the id stays 0,
\* computePath is not called and the event is posted for id 0
C19_Witness ==
    /\ cpc = "loop"
    /\ called = <<<<"getSignatureIdByLabel", "kitchen", 0>>>>
    /\ posted = <<PathEvent(0, <<>>)>>
    /\ failed

\* ----------------------------------------------------------------- C20
\* C20: the case kStateLabelling calls labelLocation with the id and the
\* label the command was posted with (id 0 if it had none) and posts a
\* RtabmapLabelErrorEvent with that id and label exactly when the call
\* returns false; when it returns true nothing is posted.
C20_LabelErrorIffFailure ==
    [][(cpc = "exec" /\ cpc' # cpc /\ cstate = kStateLabelling)
          => \E id \in 0 .. 12 : \E labelled \in BOOLEAN :
                LET label == ValueAt(cparam, "label")
                IN  /\ ValueAt(cparam, "id") = ToStr(id)
                    /\ called' = <<<<"labelLocation", id, label, labelled>>>>
                    /\ posted' = IF labelled
                                 THEN <<>>
                                 ELSE <<LabelErrorEvent(id, label)>>]_vars

\* labelLocation has refused the label for node 12 and the error event with
\* that id and label is posted
C20_Witness ==
    /\ cpc = "loop"
    /\ called = <<<<"labelLocation", 12, "kitchen", FALSE>>>>
    /\ posted = <<LabelErrorEvent(12, "kitchen")>>

C22_ClearedBeforeClose ==
    /\ [](cpc = "close" => \A i \in 1 .. Len(dataBuffer) : dataBuffer[i].seq > closeMark)
    /\ [][lastDequeued' # lastDequeued => lastDequeued' > closeMark]_vars

\* close() is about to be called after the buffer was cleared of the frame
\* it held, and a producer has appended another since
C22_Witness ==
    /\ cpc = "close"
    /\ closeMark = 1
    /\ lastDequeued = 0
    /\ Len(dataBuffer) = 1
    /\ dataBuffer[1].seq > closeMark

\* ----------------------------------------------------------------- C23
\* C23: while no producer takes a step, the case kStateReseting calls
\* resetMemory once and nothing else of the engine, and when it ends the
\* buffer is empty, lastPose_ is the identity, both accumulators are 0 and
\* _userData is empty; none of its steps changes the state stack, _paused,
\* _rate, _dataBufferMaxSize or _createIntermediateNodes.
C23_Reset ==
    [][(Reseting /\ cpc' # cpc)
          => /\ UNCHANGED <<state, stateParam, paused, rate, dataBufferMaxSize,
                            createIntermediateNodes>>
             /\ called' = <<<<"resetMemory">>>>
             /\ cpc' = "loop"
                   => /\ dataBuffer' = <<>>
                      /\ lastPose' = Identity
                      /\ rotVariance' = 0
                      /\ transVariance' = 0
                      /\ userData' = EmptyMat]_vars

\* kStateReseting has ended after a frame was buffered and never dequeued;
\* another state is still on the stack
C23_Witness ==
    /\ cstate = kStateReseting
    /\ cpc = "loop"
    /\ called = <<<<"resetMemory">>>>
    /\ nAppended = 1
    /\ lastDequeued = 0
    /\ dataBuffer = <<>>
    /\ lastPose = Identity
    /\ userData = EmptyMat
    /\ state # <<>>

\* ----------------------------------------------------------------- C24
\* C24: with a rate R > 0 the test of the elapsed time against 1/R is
\* strict.  A call that finds the timer at 1/R or more does not ignore its
\* frame, restarts the timer and appends a full entry; a call ignores its
\* frame only when the timer shows less than 1/R.
C24_StrictTest ==
    [][\A p \in Producers :
          /\ (ppc[p] = "idle" /\ ppc'[p] # "idle" /\ rate > 0)
                => /\ elapsed * rate >= 1000 => ~pignore'[p]
                   /\ pignore'[p] => elapsed * rate < 1000
          /\ (ppc[p] = "accumulate" /\ ppc'[p] # ppc[p] /\ ~pignore[p])
                => (elapsed' = 0 /\ ppc'[p] = "append")
          /\ (ppc[p] = "append" /\ ppc'[p] # ppc[p] /\ ~pignore[p])
                => ~dataBuffer'[Len(dataBuffer')].intermediate]_vars

\* a frame that arrived exactly 1/R after the timer started has been appended
\* as a full entry and the timer has restarted
C24_Witness ==
    /\ rate > 0
    /\ ~createIntermediateNodes
    /\ elapsed = 0
    /\ nEvents = 1
    /\ nAppended = 1
    /\ ~dataBuffer[1].intermediate
    /\ ppc[FirstProducer] = "idle"

\* ----------------------------------------------------------------- C25
\* C25 as stated: a call of addData that drops its frame (ignored by the
\* rate limiter, no intermediate nodes) leaves the buffer, the count of
\* _dataAdded and the accumulators as they were and sets lastPose_ to the
\* pose of the dropped event.
C25_DropRecordsPose ==
    [][\A p \in Producers :
          (ppc[p] = "accumulate" /\ ppc'[p] = "idle")
             => /\ UNCHANGED <<dataBuffer, dataAdded, rotVariance, transVariance>>
                /\ lastPose' = pev[p].pose]_vars

\* ----------------------------------------------------------------- C26
\* C26: with a rate R > 0 and intermediate nodes enabled every call of
\* addData with a non-null pose appends one entry with the id and the pose
\* of its event: an intermediate one exactly when the timer showed less than
\* 1/R at the call, a full one otherwise; only a full entry restarts the
\* timer.
C26_IntermediateNodes ==
    /\ []((rate > 0 /\ createIntermediateNodes /\ \A p \in Producers : ppc[p] = "idle")
             => nAppended = nEvents)
    /\ [][\A p \in Producers :
             (rate > 0 /\ createIntermediateNodes /\ ppc'[p] # ppc[p])
                => /\ ppc[p] = "idle" => pignore'[p] = (elapsed * rate < 1000)
                   /\ ppc[p] = "accumulate"
                         => /\ ppc'[p] = "append"
                            /\ elapsed' = IF pignore[p] THEN elapsed ELSE 0
                   /\ ppc[p] = "append"
                         => /\ Len(dataBuffer') = Len(dataBuffer) + 1
                            /\ LET entry == dataBuffer'[Len(dataBuffer')]
                               IN  /\ entry.intermediate = pignore[p]
                                   /\ entry.id = pev[p].id
                                   /\ entry.pose = pev[p].pose]_vars

\* three frames were appended, the buffer holds the last two: one of them
\* intermediate, the other full
C26_Witness ==
    /\ rate > 0
    /\ createIntermediateNodes
    /\ nAppended = MaxEvents
    /\ Len(dataBuffer) = MaxBuf
    /\ \E i, j \in 1 .. Len(dataBuffer) :
          dataBuffer[i].intermediate /\ ~dataBuffer[j].intermediate
    /\ \A p \in Producers : ppc[p] = "idle"

\* ----------------------------------------------------------------- C27
\* C27: in every interleaving of the producers the entry a call appends
\* carries, per axis, a variance that is at least the variance of the event
\* that created it (the maximum accumulated since the previous append, the
\* event's own included, or 1 when that maximum is not positive), and the
\* append leaves both accumulators at 0.
C27_EntryCarriesOwnVariance ==
    [][\A p \in Producers :
          (ppc[p] = "append" /\ ppc'[p] = "evict")
             => LET entry == dataBuffer'[Len(dataBuffer')]
                IN  /\ entry.rotVariance > 0
                    /\ entry.transVariance > 0
                    /\ entry.rotVariance >= pev[p].rotVariance
                    /\ entry.transVariance >= pev[p].transVariance
                    /\ rotVariance' = 0
                    /\ transVariance' = 0]_vars

\* ----------------------------------------------------------------- C28
\* C28: lastPose and the variance accumulators are read and written only
\* under the data mutex: while a producer holds the mutex, a step of any
\* other thread leaves lastPose and both accumulators unchanged.
C28_WritesUnderDataMutex ==
    [][\A p \in Producers :
          (dataMutex = p /\ ppc'[p] = ppc[p] /\ dataBuffer' = dataBuffer)
             => UNCHANGED <<lastPose, rotVariance, transVariance>>]_vars

\* ----------------------------------------------------------------- C29
\* C29: an odometry event with a null pose sets lastPose to the null pose
\* and changes nothing else: no entry is appended, no wake signal is given,
\* no command is pushed, the accumulators keep their values, no call under
\* way is disturbed and the main loop keeps running.
C29_NullPoseEvent ==
    [][(nEvents' # nEvents /\ prevPose' = NullPose)
          => /\ lastPose' = NullPose
             /\ UNCHANGED <<dataBuffer, dataAdded, state, stateParam, rotVariance,
                            transVariance, elapsed, paused, running, nAppended>>
             /\ UNCHANGED <<producerVars, consumerVars>>]_vars

\* a null pose arrived while another call had accumulated its variance and
\* a frame was waiting in the buffer
C29_Witness ==
    /\ lastPose = NullPose
    /\ prevPose = NullPose
    /\ transVariance = 2
    /\ Len(dataBuffer) = 1
    /\ \E p \in Producers : ppc[p] = "append"
    /\ running

\* ----------------------------------------------------------------- C30
\* C30 as stated: in kStateDetecting every frame taken from the buffer is
\* passed to _rtabmap->process.
C30_EveryFrameProcessed ==
    [][(cpc = "engine" /\ cpc' # cpc) => Len(called') = Len(called) + 1]_vars

\* C30: in kStateDetecting a frame taken from the buffer has not been
\* processed before; while the engine has a memory it is passed to
\* _rtabmap->process once, and an RtabmapEvent is posted exactly when that
\* call returns true, with the number of entries the buffer holds at that
\* moment, intermediate ones counted like full ones; while the engine has no
\* memory the frame is dropped without a call and without an event.
C30_ProcessOnce ==
    [][/\ (cpc = "getData" /\ cpc' = "engine") => cdata'.seq > lastProcessed
       /\ (cpc = "engine" /\ cpc' # cpc)
             => /\ cdata' = NoData
                /\ IF memory
                   THEN \E result \in BOOLEAN :
                           /\ called' = Append(called, ProcessCall(cdata.seq, result))
                           /\ lastProcessed' = cdata.seq
                           /\ posted' = IF result
                                        THEN Append(posted, <<"RtabmapEvent", Len(dataBuffer)>>)
                                        ELSE posted
                   ELSE UNCHANGED <<called, posted, lastProcessed>>]_vars

\* a frame was processed and its statistics posted while the buffer held an
\* intermediate entry and a full one: the event carries 2
C30_Witness ==
    /\ cpc = "loop"
    /\ memory
    /\ Len(called) = 1
    /\ posted = <<StatisticsEvent(2)>>
    /\ Len(dataBuffer) = 2
    /\ \E i, j \in 1 .. 2 : dataBuffer[i].intermediate /\ ~dataBuffer[j].intermediate

\* ----------------------------------------------------------------- C31
\* C31: a wake-up of getData takes one from the semaphore's count and
\* changes nothing else; when it then finds the buffer empty it returns
\* without a frame: _rtabmap->process is not called, nothing is posted, and
\* no field of the coordinator or of the engine changes.
C31_EmptyWakeUp ==
    [][/\ (cpc = "acquire" /\ cpc' = "getData")
             => /\ dataAdded' = dataAdded - 1
                /\ UNCHANGED <<dataBuffer, state, stateParam, dataMutex, dataBufferMaxSize,
                               rate, createIntermediateNodes, paused, lastPose,
                               rotVariance, transVariance, userData, running>>
                /\ UNCHANGED <<cdata, engineVars, called, posted>>
       /\ (cpc = "getData" /\ cpc' # cpc /\ dataBuffer = <<>>)
             => /\ cpc' = "loop"
                /\ cdata' = NoData
                /\ called' = <<>>
                /\ posted' = <<>>
                /\ UNCHANGED <<coordVars, engineVars>>]_vars

\* the consumer was woken by a signal that is left over after a frame was
\* appended and cleared: it has acquired and the buffer is empty
C31_Witness ==
    /\ cpc = "getData"
    /\ dataBuffer = <<>>
    /\ nAppended >= 1
    /\ dataAdded = 0
    /\ state = <<>>
    /\ \A p \in Producers : ppc[p] = "idle"

\* ----------------------------------------------------------------- C32
\* C32: the RtabmapGlobalPathEvent that kStateSettingGoal posts carries an
\* empty path when the resolved id is <= 0 or computePath fails, never the
\* path of an earlier goal.
C32_FailedGoalEmptyPath ==
    [][(cpc = "exec" /\ cpc' # cpc /\ cstate = kStateSettingGoal)
          => LET event == posted'[Len(posted')]
                 computeFailed == \E i \in 1 .. Len(called') :
                                     called'[i] = <<"computePath", event[2], FALSE>>
             IN  (event[2] <= 0 \/ computeFailed) => event[3] = <<>>]_vars

\* ----------------------------------------------------------------- C33
\* C33: _state and _stateParam always have the same length; they change only
\* by a push, which puts a state and its parameters on top of both, and by
\* mainLoop's pop, which takes the top of both and executes that state with
\* those parameters; nothing is executed that was not popped; and every
\* command pushed is eventually executed with
\* the parameters it was pushed with.
C33_ExecutedOnce ==
    /\ [](Len(state) = Len(stateParam))
    /\ [][/\ Len(state') > Len(state)
             => /\ \E p \in Producers : ppc[p] = "idle" /\ ppc'[p] = "release"
                /\ state = SubSeq(state', 1, Len(state))
                /\ stateParam = SubSeq(stateParam', 1, Len(stateParam))
                /\ Len(state') = Len(state) + 1
                /\ Atoi(ValueAt(stateParam'[Len(stateParam')], "id")) = nEvents'
          /\ Len(state') < Len(state)
             => /\ cpc = "loop" /\ cpc' = "exec"
                /\ state' = SubSeq(state, 1, Len(state) - 1)
                /\ stateParam' = SubSeq(stateParam, 1, Len(stateParam) - 1)
                /\ cstate' = state[Len(state)]
                /\ cparam' = stateParam[Len(stateParam)]
          /\ Len(state') = Len(state) => UNCHANGED <<state, stateParam>>
          /\ (cpc = "loop" /\ cpc' = "exec") => Len(state') = Len(state) - 1
          /\ cpc = "exec" => (cpc' = "exec" => UNCHANGED <<cstate, cparam>>)
          /\ (cpc = "exec" /\ cpc' # cpc)
                => /\ cpc' = "loop"
                   /\ Len(called') = 1
                   /\ called'[1][2] = Atoi(ValueAt(cparam, "id"))
                   /\ called'[1][1] = (IF cstate = kStateSettingGoal
                                       THEN "computePath" ELSE "labelLocation")]_vars
    /\ \A n \in 1 .. MaxEvents : \A st \in {kStateSettingGoal, kStateLabelling} :
          (\E i \in 1 .. Len(state) :
              state[i] = st /\ Atoi(ValueAt(stateParam[i], "id")) = n)
             ~> (cpc = "exec" /\ cstate = st /\ Atoi(ValueAt(cparam, "id")) = n)

\* three commands were pushed one on top of the other, the last of them a
\* label for node 3, and the main loop has executed that one first
C33_Witness ==
    /\ Len(state) = 2
    /\ state[1] = kStateSettingGoal
    /\ Atoi(ValueAt(stateParam[1], "id")) = 1
    /\ Atoi(ValueAt(stateParam[2], "id")) = 2
    /\ cpc = "loop"
    /\ cstate = kStateLabelling
    /\ called = <<<<"labelLocation", 3, "kitchen", TRUE>>>>

\* ----------------------------------------------------------------- C34
\* the push_back numbers of the entries of a buffer
Seqs(q) == {q[i].seq : i \in 1 .. Len(q)}

\* C34: the buffer holds each appended entry at most once, in the order of
\* the appends; an entry leaves it by getData's pop, by addData's eviction
\* or by a clear, and an entry that has left never comes back; getData hands
\* out each entry at most once; and a buffer that holds entries is
\* eventually empty, so every entry in it eventually leaves it.
C34_LeavesOnce ==
    /\ [](\A i, j \in 1 .. Len(dataBuffer) :
             i < j => dataBuffer[i].seq < dataBuffer[j].seq)
    /\ [](\A n \in Seqs(dataBuffer) : n <= nAppended)
    /\ [][/\ Seqs(dataBuffer') \subseteq Seqs(dataBuffer) \cup {nAppended'}
          /\ nAppended' >= nAppended
          /\ dataBuffer' # dataBuffer
                => \/ /\ Len(dataBuffer') = Len(dataBuffer) + 1
                      /\ dataBuffer' = Append(dataBuffer, dataBuffer'[Len(dataBuffer')])
                      /\ nAppended' = nAppended + 1
                      /\ dataBuffer'[Len(dataBuffer')].seq = nAppended'
                   \/ /\ cpc = "getData" /\ cpc' = "engine"
                      /\ dataBuffer' = Tail(dataBuffer)
                      /\ cdata' = Head(dataBuffer)
                      /\ cdata'.seq > lastDequeued
                      /\ lastDequeued' = cdata'.seq
                   \/ /\ \E p \in Producers : ppc[p] = "evict" /\ dataMutex = p
                      /\ dataBuffer' = Tail(dataBuffer)
                      /\ UNCHANGED <<cdata, lastDequeued>>
                   \/ /\ cpc = "clearData" /\ cpc' # cpc
                      /\ dataBuffer' = <<>>
                      /\ UNCHANGED <<cdata, lastDequeued>>]_vars
    /\ (dataBuffer # <<>>) ~> (dataBuffer = <<>>)

\* of two appended entries the first was dequeued and passed to the engine
\* and the second cleared
C34_Witness ==
    /\ nAppended = 2
    /\ dataBuffer = <<>>
    /\ lastDequeued = 1
    /\ lastProcessed = 1
    /\ cstate = kStateCleanDataBuffer
    /\ cpc = "loop"

\* ----------------------------------------------------------------- C35
\* C35: at most one kStateAddingUserData command is pending, and whenever
\* the case kStateAddingUserData is executed _userData is not empty, so
\* _rtabmap->setUserData never receives an empty blob.
C35_NeverEmptyBlob ==
    /\ [](PendingUserDataCmds <= 1)
    /\ [][(cpc = "exec" /\ cpc' # cpc /\ cstate = kStateAddingUserData)
             => userData # EmptyMat /\ lastUserDataSet' # EmptyMat]_vars

\* ----------------------------------------------------------------- C36
\* the signal getData has acquired for the pop it has not made yet
Acquired == IF cpc = "getData" THEN 1 ELSE 0

\* C36 as stated: in every state the count of _dataAdded, plus one if
\* getData has acquired and not yet popped, is at least the length of the
\* buffer.
C36_SignalsCoverQueue == dataAdded + Acquired >= Len(dataBuffer)

\* the producers between a push_back that no eviction has followed and the
\* release of _dataAdded for it
Appending == {p \in Producers : ppc[p] \in {"evict", "notify"} /\ pnotify[p]}

\* C36: in every state the count of _dataAdded, plus one if getData has
\* acquired and not yet popped, plus the number of producers that have
\* appended a frame and not yet released _dataAdded for it, is at least the
\* length of the buffer (the frames no signal covers are at most those
\* producers), and the count is never negative.
C36_SignalsCoverQueueInFlight ==
    /\ dataAdded >= 0
    /\ dataAdded + Acquired < Len(dataBuffer)
          => Len(dataBuffer) - (dataAdded + Acquired) <= Cardinality(Appending)

\* both producers have appended a frame and neither has released yet while
\* the consumer has acquired the only signal: the count is 0 and the buffer
\* holds two frames
C36_Witness ==
    /\ dataAdded = 0
    /\ cpc = "getData"
    /\ Len(dataBuffer) = 2
    /\ Cardinality(Appending) = 2

\* ----------------------------------------------------------------- C37
\* a frame with a non-identity pose is in the buffer ahead of the frame of a
\* reset event (an identity pose), or while the call of the reset event has
\* not appended its frame yet
PreResetQueued ==
    \E i \in 1 .. Len(dataBuffer) :
       /\ dataBuffer[i].pose # Identity
       /\ \/ \E j \in (i + 1) .. Len(dataBuffer) : dataBuffer[j].pose = Identity
          \/ \E p \in Producers : /\ ppc[p] \in {"resetRelease", "accumulate", "append"}
                                  /\ pev[p].pose = Identity

\* C37 as stated: when the kStateTriggeringMap pushed by a detected reset is
\* executed, no frame appended before the reset event is left in the buffer.
C37_TriggerAfterEarlierFrames ==
    [][(cpc = "exec" /\ cstate = kStateTriggeringMap /\ cpc' # cpc)
          => ~PreResetQueued]_vars

\* C37: addData pushes kStateTriggeringMap for a detected reset before it
\* appends the frame of the reset event; mainLoop takes a state from the
\* stack whatever the buffer holds, and the case kStateTriggeringMap leaves
\* the buffer as it is, so the frames that are queued when it is executed
\* are dequeued after it.
C37_TriggerPreempts ==
    [][/\ \A p \in Producers :
             (ppc[p] = "idle" /\ ppc'[p] = "resetRelease")
                => /\ state' = Append(state, kStateTriggeringMap)
                   /\ pev'[p].pose = Identity
                   /\ UNCHANGED <<dataBuffer, nAppended>>
       /\ (cpc = "loop" /\ cpc' # cpc /\ state # <<>>)
             => /\ cstate' = state[Len(state)]
                /\ cpc' = "exec"
                /\ UNCHANGED <<dataBuffer, lastDequeued>>
       /\ (cpc = "exec" /\ cstate = kStateTriggeringMap /\ cpc' # cpc)
             => /\ cpc' = "loop"
                /\ UNCHANGED <<dataBuffer, lastDequeued, lastProcessed>>]_vars

\* kStateTriggeringMap has been executed while the frame appended before the
\* reset event is still in the buffer, ahead of the frame of the reset
\* event, and no frame has been dequeued
C37_Witness ==
    /\ cpc = "loop"
    /\ cstate = kStateTriggeringMap
    /\ Len(dataBuffer) = 2
    /\ dataBuffer[1].pose = OtherPose
    /\ dataBuffer[2].pose = Identity
    /\ lastDequeued = 0

\* ----------------------------------------------------------------- C38
\* C38: kCmdPause only toggles _paused in the handler: it pushes no state,
\* releases no signal and leaves the buffer, the pending blob and the
\* consumer as they are; a frame or a user-data event received while paused
\* changes nothing; and the consumer dequeues and processes the frames in
\* the buffer whether paused or not.
C38_PauseInHandler ==
    [][/\ paused' # paused
             => /\ nEvents' = nEvents + 1
                /\ UNCHANGED <<dataBuffer, state, stateParam, dataAdded, dataMutex,
                               lastPose, rotVariance, transVariance, userData, running>>
                /\ UNCHANGED <<producerVars, consumerVars, engineVars>>
       /\ (nEvents' # nEvents /\ paused /\ paused' = paused /\ state' = state)
             => UNCHANGED <<coordVars, producerVars, consumerVars, engineVars>>
       /\ (paused /\ cpc = "getData" /\ cpc' # cpc /\ dataBuffer # <<>>)
             => /\ cpc' = "engine"
                /\ cdata' = Head(dataBuffer)
                /\ dataBuffer' = Tail(dataBuffer)
       /\ (paused /\ cpc = "engine" /\ cpc' # cpc /\ memory)
             => \E result \in BOOLEAN :
                   called' = <<ProcessCall(cdata.seq, result)>>]_vars

\* a frame was appended, then kCmdPause and a user-data event arrived, and
\* the frame has been dequeued and processed while paused; no blob is
\* pending and no state was pushed
C38_Witness ==
    /\ paused
    /\ nEvents = 3
    /\ nAppended = 1
    /\ userData = EmptyMat
    /\ state = <<>>
    /\ cpc = "loop"
    /\ lastProcessed = 1
    /\ Len(called) = 1

\* ----------------------------------------------------------------- C39
\* C39: after a call of a setter the field it sets has the value the call
\* was given: _rate after setDetectorRate(r) with r >= 0, _dataBufferMaxSize
\* after setDataBufferSize(n), _createIntermediateNodes after
\* createIntermediateNodes(b).
C39_SettersTakeEffect ==
    [][(nEvents' # nEvents /\ requested'.call = nEvents')
          => CASE requested'.setter = "setDetectorRate" -> rate' = requested'.value
               [] requested'.setter = "setDataBufferSize" ->
                     dataBufferMaxSize' = requested'.value
               [] requested'.setter = "createIntermediateNodes" ->
                     createIntermediateNodes' = requested'.value]_vars

\* ----------------------------------------------------------------- C40
\* the step of mainLoop that executes the command the client sent last
ExecutesRequested(cmd, call) ==
    /\ requested.setter = cmd
    /\ called' # called
    /\ called' # <<>>
    /\ called'[1][1] = call

\* the exportPoses call carries value2 as optimized and value1 as global
ExportFlagsForwarded ==
    ExecutesRequested("kCmdExportPoses", "exportPoses")
       => /\ called'[1][3] = requested.value[2]
          /\ called'[1][4] = requested.value[1]

\* the publishMap call carries value2 as optimized, value1 as global and
\* value3 as graph_only
PublishFlagsForwarded ==
    ExecutesRequested("kCmdPublish3DMap", "publishMap")
       => /\ called'[1][2] = requested.value[2]
          /\ called'[1][3] = requested.value[1]
          /\ called'[1][4] = requested.value[3]

\* C40: the optimized and global flags that reach exportPoses are two
\* arguments of the ExportPoses command, each its own, and the optimized,
\* global and graph_only flags that reach publishMap are the three arguments
\* of the PublishMap command, each its own.
C40_FlagsFromOwnArguments ==
    [][ExportFlagsForwarded /\ PublishFlagsForwarded]_vars

====
